---- MODULE Spec2Model ----
(***************************************************************************)
(* A model of lammpsio: the Snapshot / Topology / LabelMap data model and  *)
(* the DataFile and DumpFile codecs.                                       *)
(*                                                                         *)
(* Arrays (numpy.ndarray) are records [dims, data]: dims is the shape and  *)
(* data the entries in row-major order.  A backing field that is None is   *)
(* the record NoneArr.  Floating-point values are fixed-point integers in  *)
(* units of 10^-9 wherever a text format rounds them.                      *)
(***************************************************************************)
EXTENDS Integers, Sequences, FiniteSets, TLC

\* ---------------------------------------------------------------- bounds
MaxN == 3
MaxOps == 3
MaxTypes == 2
MaxAtoms == 2
MaxFrames == 2
MaxSections == 5
MaxObjects == 3
MaxIters == 3
MaxCallHandles == 3

\* ----------------------------------------------------------------- state
\* one Snapshot or Topology record under a sequence of public operations
VARIABLES target, snap, topo, raised, lastOp, hist, nops

recVars == <<target, snap, topo, raised, lastOp, hist, nops>>

\* one LabelMap: the forward map, the inverse index, the last operation
VARIABLES lmap, linv, lraised, llast

labelVars == <<lmap, linv, lraised, llast>>

\* one DataFile path: the snapshot written, the file, the snapshot read back
VARIABLES dpc, dsnap, dorig, dstyle, dfile, dobj, dcerr, drerr, dout

dataVars == <<dpc, dsnap, dorig, dstyle, dfile, dobj, dcerr, drerr, dout>>

\* one dump file: the snapshots written, the file, the DumpFile object, one
\* iteration over it and the frames it has yielded
VARIABLES upc, usnaps, uorig, uschema, ufile, uobj, uit, uout, uerr

dumpVars == <<upc, usnaps, uorig, uschema, ufile, uobj, uit, uout, uerr>>

\* one Box through the HOOMD-blue convention and back: the box, the array of
\* six numbers, the arguments of the call back and the box it returns
VARIABLES bpc, bbox, bdata, bargs, bout, berr

boxVars == <<bpc, bbox, bdata, bargs, bout, berr>>

\* the generator of one iteration over a dump file, one pass of its loop at
\* a time: its local variables, and the markers that advanced it since the
\* last frame
VARIABLES usc, umarks

scanVars == <<usc, umarks>>

\* objects by identity: the Box objects and the Bonds objects that exist,
\* the Box objects the caller holds, the Snapshots (each with the Box and
\* the Bonds it refers to), the Snapshot a DumpFile copies from and the last
\* assignment made through a Snapshot
VARIABLES hboxes, htopos, hcaller, hown, hcopy, hlast

heapVars == <<hboxes, htopos, hcaller, hown, hcopy, hlast>>

\* the generators that iter(f) has returned for one DumpFile object, the
\* file handles opened so far, and the call of read, create or len that is
\* inside its with block
VARIABLES gens, fds, oper

genVars == <<gens, fds, oper>>

vars == <<recVars, labelVars, dataVars, dumpVars, boxVars, scanVars, heapVars, genVars>>

notRecVars == <<labelVars, dataVars, dumpVars, boxVars, scanVars, heapVars, genVars>>

notLabelVars == <<recVars, dataVars, dumpVars, boxVars, scanVars, heapVars, genVars>>

notDataVars == <<recVars, labelVars, dumpVars, boxVars, scanVars, heapVars, genVars>>

notDumpVars == <<recVars, labelVars, dataVars, boxVars, scanVars, heapVars, genVars>>

notBoxVars == <<recVars, labelVars, dataVars, dumpVars, scanVars, heapVars, genVars>>

\* ------------------------------------------------------- numpy primitives
NoneArr == [dims |-> <<-1>>, data |-> <<>>]

RECURSIVE Prod(_)
Prod(dims) == IF dims = <<>> THEN 1 ELSE Head(dims) * Prod(Tail(dims))

\* number of entries in one row (an entry of the first axis)
RowLen(dims) == IF dims = <<>> THEN 1 ELSE Prod(Tail(dims))

Full(dims, c) == [dims |-> dims, data |-> [k \in 1..Prod(dims) |-> c]]

Arange(n) == [dims |-> <<n>>, data |-> [k \in 1..n |-> k]]

\* an array of the given shape whose entries are all different
Ramp(dims, base) == [dims |-> dims, data |-> [k \in 1..Prod(dims) |-> base + k]]

\* numpy.array(value, ndmin=n): prepend axes of length 1
RECURSIVE PadDims(_, _)
PadDims(dims, n) == IF Len(dims) >= n THEN dims ELSE PadDims(<<1>> \o dims, n)

NdMin(value, n) == [dims |-> PadDims(value.dims, n), data |-> value.data]

\* row j (0-based) of an array, as a sequence
Row(arr, j) == LET m == RowLen(arr.dims)
               IN  [k \in 1..m |-> arr.data[j * m + k]]

\* arr[order] for a list of non-negative indexes: the rows order[1], order[2], ...
TakeDup(arr, order) ==
    LET m == RowLen(arr.dims)
    IN  [dims |-> <<Len(order)>> \o Tail(arr.dims),
         data |-> [k \in 1..(Len(order) * m) |->
                      arr.data[order[1] * m + ((k - 1) % m) + 1]]]

Take(arr, order) ==
    LET m == RowLen(arr.dims)
    IN  [dims |-> <<Len(order)>> \o Tail(arr.dims),
         data |-> [k \in 1..(Len(order) * m) |->
                      arr.data[order[((k - 1) \div m) + 1] * m + ((k - 1) % m) + 1]]]

\* arr[order] raises IndexError when an index is outside the first axis
IndexOutOfRange(arr, order) == \E j \in 1..Len(order) : order[j] >= arr.dims[1]

\* numpy.copyto(dst, src) broadcasts src to the shape of dst
RECURSIVE Broadcastable(_, _)
Broadcastable(src, dst) ==
    IF src = <<>> THEN TRUE
    ELSE IF dst = <<>> THEN FALSE
    ELSE /\ (src[Len(src)] = dst[Len(dst)] \/ src[Len(src)] = 1)
         /\ Broadcastable(SubSeq(src, 1, Len(src) - 1), SubSeq(dst, 1, Len(dst) - 1))

\* the result of copyto for shapes that broadcast: for the shapes that occur
\* here (same trailing axes) src either has the shape of dst or a single row
CopyTo(dst, src) ==
    IF src.dims = dst.dims THEN src
    ELSE LET m == RowLen(dst.dims)
         IN  [dims |-> dst.dims,
              data |-> [k \in 1..Prod(dst.dims) |-> src.data[((k - 1) % m) + 1]]]

\* numpy.sort of a list of integers (insertion sort)
RECURSIVE Insert(_, _)
Insert(x, s) == IF s = <<>> THEN <<x>>
                ELSE IF x <= Head(s) THEN <<x>> \o s
                ELSE <<Head(s)>> \o Insert(x, Tail(s))

RECURSIVE NpSort(_)
NpSort(s) == IF s = <<>> THEN <<>> ELSE Insert(Head(s), NpSort(Tail(s)))

\* Python dict
EmptyDict == [k \in {} |-> 0]

DictSet(d, key, value) == [k \in DOMAIN d \cup {key} |-> IF k = key THEN value ELSE d[k]]

DictDel(d, key) == [k \in DOMAIN d \ {key} |-> d[k]]

\* ------------------------------------------------------------- Snapshot
\* floats are integers in units of 10^-9
One == 10^9

NoneTilt == <<>>

Box(low, high, tilt) == [low |-> low, high |-> high, tilt |-> tilt]

NoneTopo == [N |-> -1, num_members |-> 0, num_types |-> -1,
             id |-> NoneArr, typeid |-> NoneArr, members |-> NoneArr]

NoneInt == -1

SnapshotAttrs ==
    <<"id", "position", "velocity", "image", "molecule", "typeid", "charge", "mass">>

VectorAttrs == {"position", "velocity", "image"}

\* Snapshot.__init__: every backing field starts as None
Snapshot(N, box, step, num_types) ==
    [N |-> N, box |-> box, step |-> step, num_types |-> NoneInt,
     id |-> NoneArr, position |-> NoneArr, velocity |-> NoneArr, image |-> NoneArr,
     molecule |-> NoneArr, typeid |-> NoneArr, charge |-> NoneArr, mass |-> NoneArr,
     bonds |-> NoneTopo, angles |-> NoneTopo, dihedrals |-> NoneTopo,
     impropers |-> NoneTopo]

\* the shape every setter requires
SnapshotShape(N, a) == IF a \in VectorAttrs THEN <<N, 3>> ELSE <<N>>

\* the array a getter or setter allocates when the backing field is None
SnapshotDefault(N, a) ==
    CASE a = "id" -> Arange(N)
      [] a = "typeid" -> Full(<<N>>, 1)
      [] a = "mass" -> Full(<<N>>, One)
      [] OTHER -> Full(SnapshotShape(N, a), 0)

\* has_id(), has_position(), ...
SnapshotHas(s, a) == s[a] # NoneArr

\* the property getters: allocate the default on first access
SnapshotGetKeep(s, a) == s

SnapshotGet(s, a) ==
    IF ~SnapshotHas(s, a) THEN [s EXCEPT ![a] = SnapshotDefault(s.N, a)] ELSE s

\* the property setters; the result is the snapshot and the error raised
SnapshotSetEager(s, a, value) ==
    IF value # NoneArr
    THEN LET v == NdMin(value, Len(SnapshotShape(s.N, a)))
             t == SnapshotGet(s, a)
         IN  IF v.dims # SnapshotShape(s.N, a)
             THEN [obj |-> t, err |-> "TypeError"]
             ELSE IF ~Broadcastable(v.dims, t[a].dims)
                  THEN [obj |-> t, err |-> "ValueError"]
                  ELSE [obj |-> [t EXCEPT ![a] = CopyTo(t[a], v)], err |-> "none"]
    ELSE [obj |-> [s EXCEPT ![a] = NoneArr], err |-> "none"]

SnapshotSet(s, a, value) ==
    IF value # NoneArr
    THEN LET v == NdMin(value, Len(SnapshotShape(s.N, a)))
         IN  IF v.dims # SnapshotShape(s.N, a)
             THEN [obj |-> s, err |-> "TypeError"]
             ELSE LET t == SnapshotGet(s, a)
                  IN  IF ~Broadcastable(v.dims, t[a].dims)
                      THEN [obj |-> t, err |-> "ValueError"]
                      ELSE [obj |-> [t EXCEPT ![a] = CopyTo(t[a], v)], err |-> "none"]
    ELSE [obj |-> [s EXCEPT ![a] = NoneArr], err |-> "none"]

\* the sanity check of reorder: "" when the order passes
OrderCheck(N, order, check_order) ==
    IF check_order /\ N > 1
    THEN IF order = <<>> THEN "IndexError"
         ELSE LET sorted_order == NpSort(order)
              IN  IF \/ sorted_order[1] # 0
                     \/ sorted_order[Len(order)] # N - 1
                     \/ \E i \in 1..(Len(order) - 1) :
                            sorted_order[i + 1] # sorted_order[i] + 1
                  THEN "ValueError" ELSE ""
    ELSE ""

\* the chain "if self.has_x(): self._x = self._x[order]" from attribute k on:
\* an IndexError leaves the attributes already reordered as they are
RECURSIVE ReorderFrom(_, _, _, _)
ReorderFrom(s, attrs, k, order) ==
    IF k > Len(attrs) THEN [obj |-> s, err |-> "none"]
    ELSE LET a == attrs[k]
         IN  IF s[a] = NoneArr THEN ReorderFrom(s, attrs, k + 1, order)
             ELSE IF IndexOutOfRange(s[a], order)
                  THEN [obj |-> s, err |-> "IndexError"]
                  ELSE ReorderFrom([s EXCEPT ![a] = Take(s[a], order)],
                                   attrs, k + 1, order)

SnapshotReorder(s, order, check_order) ==
    LET e == OrderCheck(s.N, order, check_order)
    IN  IF e # "" THEN [obj |-> s, err |-> e]
        ELSE ReorderFrom(s, SnapshotAttrs, 1, order)

\* ------------------------------------------------------------- Topology
TopologyAttrs == <<"id", "typeid", "members">>

TopologyKinds == {"Bonds", "Angles", "Dihedrals", "Impropers"}

\* Bonds, Angles, Dihedrals, Impropers: the arity each subclass passes on
NumMembers(kind) ==
    CASE kind = "Bonds" -> 2
      [] kind = "Angles" -> 3
      [] OTHER -> 4

\* Topology.__init__
Topology(N, num_members, num_types) ==
    [N |-> N, num_members |-> num_members, num_types |-> num_types,
     id |-> NoneArr, typeid |-> NoneArr, members |-> NoneArr]

TopologyShape(t, a) == IF a = "members" THEN <<t.N, t.num_members>> ELSE <<t.N>>

TopologyDefault(t, a) ==
    IF a = "id" THEN Arange(t.N) ELSE Full(TopologyShape(t, a), 1)

TopologyHas(t, a) == t[a] # NoneArr

\* a getter that returns the default and stores nothing
TopologyGetKeep(t, a) == t

TopologyGet(t, a) ==
    IF ~TopologyHas(t, a) THEN [t EXCEPT ![a] = TopologyDefault(t, a)] ELSE t

TopologySet(t, a, value) ==
    IF value # NoneArr
    THEN LET v == NdMin(value, Len(TopologyShape(t, a)))
         IN  IF v.dims # TopologyShape(t, a)
             THEN [obj |-> t, err |-> "TypeError"]
             ELSE LET u == TopologyGet(t, a)
                  IN  IF ~Broadcastable(v.dims, u[a].dims)
                      THEN [obj |-> u, err |-> "ValueError"]
                      ELSE [obj |-> [u EXCEPT ![a] = CopyTo(u[a], v)], err |-> "none"]
    ELSE [obj |-> [t EXCEPT ![a] = NoneArr], err |-> "none"]

TopologyReorder(t, order, check_order) ==
    LET e == OrderCheck(t.N, order, check_order)
    IN  IF e # "" THEN [obj |-> t, err |-> e]
        ELSE ReorderFrom(t, TopologyAttrs, 1, order)

\* ------------------------------------------ Snapshot / Topology as objects
UnitBox == Box(<<0, 0, 0>>, <<One, One, One>>, NoneTilt)

NoOp == [op |-> "none", attr |-> "", value |-> NoneArr, order |-> <<>>, check |-> FALSE]

\* the values a caller assigns: None, a well-shaped array, and badly shaped ones
SetInputs(shape) ==
    {NoneArr, Ramp(shape, 10), Ramp(<<shape[1] + 1>> \o Tail(shape), 10),
     Ramp(Tail(shape), 10)}
    \cup (IF Len(shape) = 2 THEN {Ramp(<<shape[1], shape[2] - 1>>, 10)} ELSE {})

Identity(n) == [i \in 1..n |-> i - 1]

IsPermutation(order, n) ==
    /\ Len(order) = n
    /\ \A i \in 0..(n - 1) : \E j \in 1..n : order[j] = i

OrderPerms(n) == {p \in [1..n -> 0..(n - 1)] : IsPermutation(p, n)}

Inverse(order) ==
    [i \in 1..Len(order) |-> (CHOOSE j \in 1..Len(order) : order[j] = i - 1) - 1]

\* the orders a caller passes: every permutation, and lists that are none
OrderInputs(n) ==
    OrderPerms(n)
    \cup {Identity(n) \o <<0>>}
    \cup (IF n >= 1 THEN {SubSeq(Identity(n), 1, n - 1),
                          [Identity(n) EXCEPT ![n] = n]} ELSE {})
    \cup (IF n >= 2 THEN {[Identity(n) EXCEPT ![n] = 0]} ELSE {})

RecIdle ==
    /\ target = "none"
    /\ snap = Snapshot(0, UnitBox, NoneInt, NoneInt)
    /\ topo = NoneTopo
    /\ raised = "none"
    /\ lastOp = NoOp
    /\ hist = <<>>
    /\ nops = 0

RecInit ==
    /\ target \in {"Snapshot"} \cup TopologyKinds
    /\ \E N \in 0..MaxN :
          /\ snap = Snapshot(IF target = "Snapshot" THEN N ELSE 0, UnitBox,
                             NoneInt, NoneInt)
          /\ topo = IF target = "Snapshot" THEN NoneTopo
                    ELSE Topology(N, NumMembers(target), NoneInt)
    /\ raised = "none"
    /\ lastOp = NoOp
    /\ hist = <<>>
    /\ nops = 0

\* a read of snapshot.<a>
SnapGetAct(a) ==
    /\ target = "Snapshot" /\ nops < MaxOps
    /\ snap' = SnapshotGet(snap, a)
    /\ raised' = "none"
    /\ lastOp' = [NoOp EXCEPT !.op = "get", !.attr = a]
    /\ hist' = <<>>
    /\ nops' = nops + 1
    /\ UNCHANGED <<target, topo, notRecVars>>

\* snapshot.<a> = value
SnapSetAct(a, value) ==
    /\ target = "Snapshot" /\ nops < MaxOps
    /\ LET r == SnapshotSet(snap, a, value)
       IN  /\ snap' = r.obj
           /\ raised' = r.err
    /\ lastOp' = [NoOp EXCEPT !.op = "set", !.attr = a, !.value = value]
    /\ hist' = <<>>
    /\ nops' = nops + 1
    /\ UNCHANGED <<target, topo, notRecVars>>

\* snapshot.reorder(order, check_order)
SnapReorderAct(order, check_order) ==
    /\ target = "Snapshot" /\ nops < MaxOps
    /\ LET r == SnapshotReorder(snap, order, check_order)
       IN  /\ snap' = r.obj
           /\ raised' = r.err
           /\ hist' = IF r.err = "none"
                      THEN (IF hist = <<>> THEN <<>> ELSE <<hist[Len(hist)]>>)
                           \o <<[order |-> order, pre |-> snap]>>
                      ELSE <<>>
    /\ lastOp' = [NoOp EXCEPT !.op = "reorder", !.order = order, !.check = check_order]
    /\ nops' = nops + 1
    /\ UNCHANGED <<target, topo, notRecVars>>

TopoGetAct(a) ==
    /\ target \in TopologyKinds /\ nops < MaxOps
    /\ topo' = TopologyGet(topo, a)
    /\ raised' = "none"
    /\ lastOp' = [NoOp EXCEPT !.op = "get", !.attr = a]
    /\ hist' = <<>>
    /\ nops' = nops + 1
    /\ UNCHANGED <<target, snap, notRecVars>>

TopoSetAct(a, value) ==
    /\ target \in TopologyKinds /\ nops < MaxOps
    /\ LET r == TopologySet(topo, a, value)
       IN  /\ topo' = r.obj
           /\ raised' = r.err
    /\ lastOp' = [NoOp EXCEPT !.op = "set", !.attr = a, !.value = value]
    /\ hist' = <<>>
    /\ nops' = nops + 1
    /\ UNCHANGED <<target, snap, notRecVars>>

TopoReorderAct(order, check_order) ==
    /\ target \in TopologyKinds /\ nops < MaxOps
    /\ LET r == TopologyReorder(topo, order, check_order)
       IN  /\ topo' = r.obj
           /\ raised' = r.err
           /\ hist' = IF r.err = "none"
                      THEN (IF hist = <<>> THEN <<>> ELSE <<hist[Len(hist)]>>)
                           \o <<[order |-> order, pre |-> topo]>>
                      ELSE <<>>
    /\ lastOp' = [NoOp EXCEPT !.op = "reorder", !.order = order, !.check = check_order]
    /\ nops' = nops + 1
    /\ UNCHANGED <<target, snap, notRecVars>>

Range(seq) == {seq[i] : i \in 1..Len(seq)}

RecNext ==
    \/ \E a \in Range(SnapshotAttrs) : SnapGetAct(a)
    \/ \E a \in Range(SnapshotAttrs) :
          \E v \in SetInputs(SnapshotShape(snap.N, a)) : SnapSetAct(a, v)
    \/ \E order \in OrderInputs(snap.N), c \in BOOLEAN : SnapReorderAct(order, c)
    \/ \E a \in Range(TopologyAttrs) : TopoGetAct(a)
    \/ \E a \in Range(TopologyAttrs) :
          \E v \in SetInputs(TopologyShape(topo, a)) : TopoSetAct(a, v)
    \/ \E order \in OrderInputs(topo.N), c \in BOOLEAN : TopoReorderAct(order, c)

\* ------------------------------------------------------------- LabelMap
Labels == {"A", "B"}

\* LabelMap.__init__ without a map
LabelIdle ==
    /\ lmap = EmptyDict
    /\ linv = EmptyDict
    /\ lraised = "none"
    /\ llast = [op |-> "none", key |-> 0, value |-> "", present |-> FALSE]

\* label_map[key] = value
LabelSetItem(key, value) ==
    /\ lmap' = DictSet(lmap, key, value)
    /\ linv' = DictSet(linv, value, key)
    /\ lraised' = "none"
    /\ llast' = [op |-> "set", key |-> key, value |-> value, present |-> key \in DOMAIN lmap]
    /\ UNCHANGED notLabelVars

\* del label_map[key]: pop from the forward map, then delete the popped label
\* from the inverse map; either step raises KeyError when its key is missing
LabelDelItem(key) ==
    /\ IF key \notin DOMAIN lmap
       THEN lraised' = "KeyError" /\ UNCHANGED <<lmap, linv>>
       ELSE /\ lmap' = DictDel(lmap, key)
            /\ IF lmap[key] \in DOMAIN linv
               THEN linv' = DictDel(linv, lmap[key]) /\ lraised' = "none"
               ELSE linv' = linv /\ lraised' = "KeyError"
    /\ llast' = [op |-> "del", key |-> key, value |-> "", present |-> key \in DOMAIN lmap]
    /\ UNCHANGED notLabelVars

LabelNext ==
    \/ \E key \in 1..MaxTypes, value \in Labels : LabelSetItem(key, value)
    \/ \E key \in 1..MaxTypes : LabelDelItem(key)

\* ------------------------------------------------------- text of a file
\* a token of a line: an integer literal, a decimal literal (in units of
\* 10^-9) or a word
IntTok(v) == [k |-> "int", v |-> v]

FloatTok(v) == [k |-> "float", v |-> v]

WordTok == [k |-> "word", v |-> 0]

\* a line: the keyword text it carries, its numeric tokens, a trailing word
Line(kw, toks, style) == [kw |-> kw, toks |-> toks, style |-> style]

BlankLine == Line("", <<>>, "")

\* line.split() of a line read as a row of a section
RowToks(line) == IF line.kw = "" THEN line.toks ELSE line.toks \o <<WordTok>>

\* the nearest multiple of u, ties to the even multiple
RoundTo(v, u) ==
    LET q == v \div u
        r == v % u
    IN  IF 2 * r < u THEN q * u
        ELSE IF 2 * r > u THEN (q + 1) * u
        ELSE IF q % 2 = 0 THEN q * u ELSE (q + 1) * u

\* "{:.8f}", "{:.6f}" ("{:f}") and "{:.5f}" of a float
Fixed8(v) == FloatTok(RoundTo(v, 10))

Fixed6(v) == FloatTok(RoundTo(v, 10^3))

Fixed5(v) == FloatTok(RoundTo(v, 10^4))

\* "{}" of a float: the shortest text that reads back as the same float
Repr(v) == FloatTok(v)

\* int(text) accepts integer literals only; float(text) accepts both
IsInt(tok) == tok.k = "int"

IsNumber(tok) == tok.k \in {"int", "float"}

ParseFloat(tok) == IF tok.k = "int" THEN tok.v * One ELSE tok.v

NoFile == [exists |-> FALSE, lines |-> <<>>]

File(lines) == [exists |-> TRUE, lines |-> lines]

\* arr[idx] = vals for one row of an array
SetRow(arr, idx, vals) ==
    LET m == RowLen(arr.dims)
    IN  [arr EXCEPT !.data = [k \in 1..Len(arr.data) |->
            IF (k - 1) \div m = idx THEN vals[((k - 1) % m) + 1] ELSE arr.data[k]]]

\* values[keys == t]
RECURSIVE Masked(_, _, _, _)
Masked(values, keys, t, k) ==
    IF k > Len(keys) THEN <<>>
    ELSE (IF keys[k] = t THEN <<values[k]>> ELSE <<>>) \o Masked(values, keys, t, k + 1)

\* numpy.amax of a non-empty list
RECURSIVE AMax(_)
AMax(s) == IF Len(s) = 1 THEN s[1]
           ELSE LET m == AMax(Tail(s)) IN IF s[1] >= m THEN s[1] ELSE m

\* ------------------------------------------------------------- DataFile
TopoFields == <<"bonds", "angles", "dihedrals", "impropers">>

KindOf(field) ==
    CASE field = "bonds" -> "Bonds"
      [] field = "angles" -> "Angles"
      [] field = "dihedrals" -> "Dihedrals"
      [] OTHER -> "Impropers"

\* has_bonds(), has_angles(), ...: a record is assigned and it is not empty
SnapshotHasTopology(s, field) == s[field] # NoneTopo /\ s[field].N > 0

\* the num_types getter of Snapshot and of Topology: amax raises on no entries
NumTypes(o) ==
    IF o.num_types # NoneInt THEN [err |-> "none", v |-> o.num_types]
    ELSE IF o.typeid # NoneArr
         THEN IF o.typeid.data = <<>> THEN [err |-> "ValueError", v |-> 0]
              ELSE [err |-> "none", v |-> AMax(o.typeid.data)]
         ELSE [err |-> "none", v |-> 1]

AtomStyles == {"atomic", "charge", "molecular", "full"}

NoStyle == ""

\* the number of columns between the particle id and the position
StyleCols(style) ==
    CASE style = "full" -> 3
      [] style \in {"charge", "molecular"} -> 2
      [] OTHER -> 1

\* DataFile.create, mass by type, from type i on; masses collects the result
RECURSIVE MassByType(_, _, _, _)
MassByType(s, i, num_types, masses) ==
    IF i > num_types THEN [err |-> "none", masses |-> masses]
    ELSE LET mi == Masked(s.mass.data, s.typeid.data, i, 1)
         IN  IF mi = <<>> THEN [err |-> "IndexError", masses |-> masses]
             ELSE IF \E k \in 1..Len(mi) : mi[k] # mi[1]
                  THEN [err |-> "ValueError", masses |-> masses]
                  ELSE IF mi[1] <= 0 THEN [err |-> "ValueError", masses |-> masses]
                  ELSE MassByType(s, i + 1, num_types, Append(masses, mi[1]))

\* the header lines create writes for the topology kinds that are present
TypesKw(field) ==
    CASE field = "bonds" -> "bond types"
      [] field = "angles" -> "angle types"
      [] field = "dihedrals" -> "dihedral types"
      [] OTHER -> "improper types"

TopoHeader(s, types) ==
    LET line(f) == IF SnapshotHasTopology(s, f)
                   THEN <<Line(IF types THEN TypesKw(f) ELSE f,
                               <<IntTok(IF types THEN NumTypes(s[f]).v ELSE s[f].N)>>,
                               "")>>
                   ELSE <<>>
    IN  line("bonds") \o line("angles") \o line("dihedrals") \o line("impropers")

\* a choice of style that looks at molecule and charge only
InferStyleNoTopology(s) ==
    IF SnapshotHas(s, "molecule")
    THEN (IF SnapshotHas(s, "charge") THEN "full" ELSE "molecular")
    ELSE (IF SnapshotHas(s, "charge") THEN "charge" ELSE "atomic")

\* the style create infers when none is given
InferStyle(s) ==
    LET has_topology == \E f \in {"bonds", "angles", "dihedrals", "impropers"} :
                            SnapshotHasTopology(s, f)
    IN  IF SnapshotHas(s, "molecule") \/ has_topology
        THEN (IF SnapshotHas(s, "charge") THEN "full" ELSE "molecular")
        ELSE (IF SnapshotHas(s, "charge") THEN "charge" ELSE "atomic")

\* one row of the Atoms section (i is 0-based)
AtomsRow(s, has, style, i) ==
    LET atomid == IF has.id THEN s.id.data[i + 1] ELSE i + 1
        q == IF has.charge THEN s.charge.data[i + 1] ELSE 0
        molid == IF has.molecule THEN s.molecule.data[i + 1] ELSE 0
        x == Row(s.position, i)
        xyz == <<Fixed8(x[1]), Fixed8(x[2]), Fixed8(x[3])>>
        typeid == IntTok(s.typeid.data[i + 1])
        head == CASE style = "full" -> <<IntTok(atomid), IntTok(molid), typeid, Fixed5(q)>>
                  [] style = "charge" -> <<IntTok(atomid), typeid, Fixed5(q)>>
                  [] style = "molecular" -> <<IntTok(atomid), IntTok(molid), typeid>>
                  [] OTHER -> <<IntTok(atomid), typeid>>
        img == IF has.image
               THEN LET im == Row(s.image, i)
                    IN  <<IntTok(im[1]), IntTok(im[2]), IntTok(im[3])>>
               ELSE <<>>
    IN  Line("", head \o xyz \o img, "")

VelocityRow(s, has, i) ==
    LET atomid == IF has.id THEN s.id.data[i + 1] ELSE i + 1
        v == Row(s.velocity, i)
    IN  Line("", <<IntTok(atomid), Fixed8(v[1]), Fixed8(v[2]), Fixed8(v[3])>>, "")

\* one row of a topology section
TopoRow(t, i) ==
    LET m == Row(t.members, i)
    IN  Line("", <<IntTok(t.id.data[i + 1]), IntTok(t.typeid.data[i + 1])>>
                 \o [k \in 1..Len(m) |-> IntTok(m[k])], "")

\* the three reads of a record, with the ids numbered anew
TopoReadRenumber(t) ==
    [TopologyGet(TopologyGet(t, "typeid"), "members") EXCEPT !.id = TopologyDefault(t, "id")]

\* the getters create calls on a topology record it writes
TopoRead(t) == TopologyGet(TopologyGet(TopologyGet(t, "id"), "typeid"), "members")

TopoSection(s, f) ==
    IF SnapshotHasTopology(s, f)
    THEN <<BlankLine, Line(KindOf(f), <<>>, ""), BlankLine>>
         \o [i \in 1..s[f].N |-> TopoRow(TopoRead(s[f]), i - 1)]
    ELSE <<>>

\* DataFile.create: the error raised, whether the file was opened for
\* writing, the lines written, and the snapshot as the getters leave it
DataCreate(snapshot, atom_style) ==
    LET has == [a \in {"id", "charge", "molecule", "image", "velocity", "mass"} |->
                   SnapshotHas(snapshot, a)]
        nt == NumTypes(snapshot)
        s1 == IF has.mass /\ nt.err = "none" /\ nt.v >= 1
              THEN SnapshotGet(snapshot, "typeid") ELSE snapshot
        mm == IF has.mass
              THEN (IF nt.err # "none" THEN [err |-> nt.err, masses |-> <<>>]
                    ELSE MassByType(s1, 1, nt.v, <<>>))
              ELSE [err |-> "none", masses |-> <<>>]
        counts == <<Line("title", <<>>, ""), BlankLine,
                    Line("atoms", <<IntTok(snapshot.N)>>, "")>>
                  \o TopoHeader(s1, FALSE)
        box == s1.box
        header == counts
                  \o <<Line("atom types", <<IntTok(nt.v)>>, "")>>
                  \o TopoHeader(s1, TRUE)
                  \o <<Line("xlo xhi", <<Repr(box.low[1]), Repr(box.high[1])>>, ""),
                       Line("ylo yhi", <<Repr(box.low[2]), Repr(box.high[2])>>, ""),
                       Line("zlo zhi", <<Repr(box.low[3]), Repr(box.high[3])>>, "")>>
                  \o (IF box.tilt # NoneTilt
                      THEN <<Line("xy xz yz", <<Repr(box.tilt[1]), Repr(box.tilt[2]),
                                                Repr(box.tilt[3])>>, "")>>
                      ELSE <<>>)
        style == IF atom_style = NoStyle THEN InferStyle(s1) ELSE atom_style
        s2 == IF s1.N > 0
              THEN SnapshotGet(SnapshotGet(s1, "typeid"), "position") ELSE s1
        atoms == <<BlankLine, Line("Atoms", <<>>, style), BlankLine>>
                 \o [i \in 1..s2.N |-> AtomsRow(s2, has, style, i - 1)]
        velocities == IF has.velocity
                      THEN <<BlankLine, Line("Velocities", <<>>, ""), BlankLine>>
                           \o [i \in 1..s2.N |-> VelocityRow(s2, has, i - 1)]
                      ELSE <<>>
        masses == IF has.mass
                  THEN <<BlankLine, Line("Masses", <<>>, ""), BlankLine>>
                       \o [i \in 1..Len(mm.masses) |->
                              Line("", <<IntTok(i), Repr(mm.masses[i])>>, "")]
                  ELSE <<>>
        s3 == [f \in DOMAIN s2 |->
                  IF f \in {"bonds", "angles", "dihedrals", "impropers"}
                     /\ SnapshotHasTopology(s2, f)
                  THEN TopoRead(s2[f]) ELSE s2[f]]
        topology == TopoSection(s2, "bonds") \o TopoSection(s2, "angles")
                    \o TopoSection(s2, "dihedrals") \o TopoSection(s2, "impropers")
    IN  IF mm.err # "none"
        THEN [err |-> mm.err, opened |-> FALSE, lines |-> <<>>, snapshot |-> s1]
        ELSE IF nt.err # "none"
        THEN [err |-> nt.err, opened |-> TRUE, lines |-> counts, snapshot |-> s1]
        ELSE IF style \notin AtomStyles
        THEN [err |-> "ValueError", opened |-> TRUE, lines |-> header, snapshot |-> s1]
        ELSE [err |-> "none", opened |-> TRUE,
              lines |-> header \o atoms \o velocities \o masses \o topology,
              snapshot |-> s3]

\* ---------------------------------------------------------- DataFile.read
KnownHeaders ==
    {"atoms", "atom types", "xlo xhi", "ylo yhi", "zlo zhi", "xy xz yz",
     "bonds", "angles", "dihedrals", "impropers",
     "bond types", "angle types", "dihedral types", "improper types"}

UnknownHeaders ==
    {"extra bond per atom", "extra angle per atom", "extra dihedral per atom",
     "extra improper per atom", "ellipsoids", "lines", "triangles", "bodies"}

NoHeader ==
    [N |-> NoneInt, num_types |-> NoneInt,
     counts |-> [f \in {"bonds", "angles", "dihedrals", "impropers"} |-> NoneInt],
     types |-> [f \in {"bonds", "angles", "dihedrals", "impropers"} |-> NoneInt],
     lo |-> <<>>, hi |-> <<>>, tilt |-> NoneTilt, err |-> "none", p |-> 0]

\* the place of an axis keyword in box_bounds
AxisOf(kw) == CASE kw = "xlo xhi" -> 1 [] kw = "ylo yhi" -> 2 [] OTHER -> 3

FieldOfTypes(kw) ==
    CASE kw = "bond types" -> "bonds"
      [] kw = "angle types" -> "angles"
      [] kw = "dihedral types" -> "dihedrals"
      [] OTHER -> "impropers"

\* the header loop from line p on: stops at the first line that is neither
\* blank nor a known header and keeps that line for the body loop
RECURSIVE ReadHeader(_, _, _)
ReadHeader(lines, p, h) ==
    IF p > Len(lines) THEN [h EXCEPT !.p = p]
    ELSE LET line == lines[p]
             kw == line.kw
             t == line.toks
         IN  IF line = BlankLine THEN ReadHeader(lines, p + 1, h)
             ELSE IF kw \in UnknownHeaders THEN ReadHeader(lines, p + 1, h)
             ELSE IF kw \notin KnownHeaders THEN [h EXCEPT !.p = p]
             ELSE IF kw \in {"xlo xhi", "ylo yhi", "zlo zhi"}
             THEN IF Len(t) < 2 \/ ~IsNumber(t[1]) \/ ~IsNumber(t[2])
                  THEN [h EXCEPT !.err = "ValueError", !.p = p]
                  ELSE ReadHeader(lines, p + 1,
                           [h EXCEPT !.lo = [a \in DOMAIN h.lo \cup {AxisOf(kw)} |->
                                               IF a = AxisOf(kw) THEN ParseFloat(t[1])
                                               ELSE h.lo[a]],
                                     !.hi = [a \in DOMAIN h.hi \cup {AxisOf(kw)} |->
                                               IF a = AxisOf(kw) THEN ParseFloat(t[2])
                                               ELSE h.hi[a]]])
             ELSE IF kw = "xy xz yz"
             THEN IF Len(t) < 3 \/ \E k \in 1..3 : ~IsNumber(t[k])
                  THEN [h EXCEPT !.err = "ValueError", !.p = p]
                  ELSE ReadHeader(lines, p + 1,
                           [h EXCEPT !.tilt = [k \in 1..3 |-> ParseFloat(t[k])]])
             ELSE IF t = <<>> THEN [h EXCEPT !.err = "IndexError", !.p = p]
             ELSE IF ~IsInt(t[1]) THEN [h EXCEPT !.err = "ValueError", !.p = p]
             ELSE ReadHeader(lines, p + 1,
                      CASE kw = "atoms" -> [h EXCEPT !.N = t[1].v]
                        [] kw = "atom types" -> [h EXCEPT !.num_types = t[1].v]
                        [] kw \in {"bonds", "angles", "dihedrals", "impropers"} ->
                               [h EXCEPT !.counts[kw] = t[1].v]
                        [] OTHER -> [h EXCEPT !.types[FieldOfTypes(kw)] = t[1].v])

\* snap.<a>[idx] = vals through the getter, which allocates the default
SetItem(s, a, idx, vals) ==
    LET u == SnapshotGet(s, a) IN [u EXCEPT ![a] = SetRow(u[a], idx, vals)]

\* the id handling shared by Atoms and Velocities: the id is stored, and the
\* row redirected through id_map, only when the id is not the row's position
IdIndex(st, i, id_) ==
    IF id_ # i + 1
    THEN LET m == IF id_ \in DOMAIN st.id_map THEN st.id_map
                  ELSE DictSet(st.id_map, id_, i)
         IN  [st EXCEPT !.id_map = m, !.idx = m[id_],
                        !.snap = SetItem(st.snap, "id", m[id_], <<id_>>)]
    ELSE [st EXCEPT !.idx = i]

\* the columns of an Atoms row that are read with int()
AtomsIntCols(style, n) ==
    {1} \cup (CASE style = "full" -> {2, 3}
                [] style = "charge" -> {2}
                [] style = "molecular" -> {2, 3}
                [] OTHER -> {2})
        \cup (IF n = StyleCols(style) + 7
              THEN (StyleCols(style) + 5)..(StyleCols(style) + 7) ELSE {})

\* row i (0-based) of the Atoms section
ReadAtomsRow(st, i, row, style) ==
    LET c == StyleCols(style)
        n == Len(row)
    IN  IF ~(n = c + 4 \/ n = c + 7) THEN [st EXCEPT !.err = "IOError"]
        ELSE IF \/ \E k \in AtomsIntCols(style, n) : ~IsInt(row[k])
                \/ \E k \in 1..n : ~IsNumber(row[k])
        THEN [st EXCEPT !.err = "ValueError"]
        ELSE LET s0 == IdIndex(st, i, row[1].v)
                 idx == s0.idx
                 a == s0.snap
                 b == CASE style = "full" ->
                             SetItem(SetItem(SetItem(a, "molecule", idx, <<row[2].v>>),
                                             "typeid", idx, <<row[3].v>>),
                                     "charge", idx, <<ParseFloat(row[4])>>)
                        [] style = "charge" ->
                             SetItem(SetItem(a, "typeid", idx, <<row[2].v>>),
                                     "charge", idx, <<ParseFloat(row[3])>>)
                        [] style = "molecular" ->
                             SetItem(SetItem(a, "molecule", idx, <<row[2].v>>),
                                     "typeid", idx, <<row[3].v>>)
                        [] OTHER -> SetItem(a, "typeid", idx, <<row[2].v>>)
                 d == SetItem(b, "position", idx,
                              [k \in 1..3 |-> ParseFloat(row[c + 1 + k])])
                 e == IF n = c + 7
                      THEN SetItem(d, "image", idx, [k \in 1..3 |-> row[c + 4 + k].v])
                      ELSE d
             IN  [s0 EXCEPT !.snap = e]

\* row i (0-based) of the Velocities section
ReadVelocityRow(st, i, row) ==
    IF Len(row) < 4 THEN [st EXCEPT !.err = "IOError"]
    ELSE IF ~IsInt(row[1]) \/ \E k \in 2..4 : ~IsNumber(row[k])
    THEN [st EXCEPT !.err = "ValueError"]
    ELSE LET s0 == IdIndex(st, i, row[1].v)
         IN  [s0 EXCEPT !.snap = SetItem(s0.snap, "velocity", s0.idx,
                                         [k \in 1..3 |-> ParseFloat(row[1 + k])])]

\* a Masses row applied at once to the particles that have its type when it
\* is read, and not kept for the end
ReadMassRowEager(st, i, row) ==
    IF Len(row) < 2 THEN [st EXCEPT !.err = "IOError"]
    ELSE IF ~IsInt(row[1]) \/ ~IsNumber(row[2]) THEN [st EXCEPT !.err = "ValueError"]
    ELSE LET a == SnapshotGet(SnapshotGet(st.snap, "mass"), "typeid")
         IN  [st EXCEPT !.masses = [set |-> TRUE, d |-> EmptyDict],
                        !.snap = [a EXCEPT !.mass.data = [k \in 1..Len(a.mass.data) |->
                                     IF a.typeid.data[k] = row[1].v
                                     THEN ParseFloat(row[2]) ELSE a.mass.data[k]]]]

\* row i (0-based) of the Masses section
ReadMassRow(st, i, row) ==
    IF Len(row) < 2 THEN [st EXCEPT !.err = "IOError"]
    ELSE IF ~IsInt(row[1]) \/ ~IsNumber(row[2]) THEN [st EXCEPT !.err = "ValueError"]
    ELSE [st EXCEPT !.masses = [set |-> TRUE,
                                d |-> DictSet(st.masses.d, row[1].v, ParseFloat(row[2]))]]

\* row i (0-based) of a topology section: the id is stored only when it is
\* not the row's position
ReadTopoRow(st, i, row, f) ==
    LET t == st.snap[f]
        nm == t.num_members
    IN  IF Len(row) < nm + 2 THEN [st EXCEPT !.err = "IOError"]
        ELSE IF \E k \in 1..Len(row) : ~IsInt(row[k])
        THEN [st EXCEPT !.err = "ValueError"]
        ELSE LET t1 == IF row[1].v # i + 1
                       THEN LET u == TopologyGet(t, "id")
                            IN  [u EXCEPT !.id = SetRow(u.id, i, <<row[1].v>>)]
                       ELSE t
                 t2 == LET u == TopologyGet(t1, "typeid")
                       IN  [u EXCEPT !.typeid = SetRow(u.typeid, i, <<row[2].v>>)]
                 t3 == LET u == TopologyGet(t2, "members")
                       IN  [u EXCEPT !.members =
                               SetRow(u.members, i, [k \in 1..nm |-> row[2 + k].v])]
             IN  [st EXCEPT !.snap[f] = t3]

\* the rows of a section: n rows from line p on, each line required
RECURSIVE ReadRows(_, _, _, _, _, _, _)
ReadRows(lines, p, i, n, st, section, style) ==
    IF i >= n \/ st.err # "none" THEN [st EXCEPT !.p = p]
    ELSE IF p > Len(lines) THEN [st EXCEPT !.err = "OSError", !.p = p]
    ELSE LET row == RowToks(lines[p])
             next == CASE section = "Atoms" -> ReadAtomsRow(st, i, row, style)
                       [] section = "Velocities" -> ReadVelocityRow(st, i, row)
                       [] section = "Masses" -> ReadMassRow(st, i, row)
                       [] OTHER -> ReadTopoRow(st, i, row, section)
         IN  ReadRows(lines, p + 1, i + 1, n, next, section, style)

FieldOfSection(kw) ==
    CASE kw = "Bonds" -> "bonds"
      [] kw = "Angles" -> "angles"
      [] kw = "Dihedrals" -> "dihedrals"
      [] OTHER -> "impropers"

\* the sanity check that ends the Atoms section: every type id is in
\* 1..num_types
CheckAtomTypes(r, num_types) ==
    IF r.err # "none" THEN r
    ELSE LET typeid == SnapshotGet(r.snap, "typeid")
         IN  IF \E k \in 1..Len(typeid.typeid.data) :
                   \/ typeid.typeid.data[k] < 1
                   \/ typeid.typeid.data[k] > num_types
             THEN [r EXCEPT !.err = "ValueError"]
             ELSE [r EXCEPT !.snap = typeid]

\* the sanity check that ends a topology section: num_types is at least 1
\* and no type id exceeds it
CheckTopoTypes(r, f) ==
    IF r.err # "none" THEN r
    ELSE LET nt == NumTypes(r.snap[f])
             t == TopologyGet(r.snap[f], "typeid")
         IN  IF nt.err # "none" THEN [r EXCEPT !.err = nt.err]
             ELSE IF \/ nt.v < 1
                     \/ \E k \in 1..Len(t.typeid.data) : t.typeid.data[k] > nt.v
                  THEN [r EXCEPT !.err = "ValueError"]
                  ELSE [r EXCEPT !.snap[f] = t]

\* one section of the body whose name is on line p; the result's p is the
\* line the body loop reads next
ReadSection(lines, p, st, h, atom_style) ==
    LET kw == lines[p].kw
    IN  IF kw = "Atoms"
        THEN LET style == IF lines[p].style # NoStyle THEN lines[p].style ELSE atom_style
             IN  IF lines[p].style # NoStyle /\ atom_style # NoStyle
                    /\ lines[p].style # atom_style
                 THEN [st EXCEPT !.err = "ValueError"]
                 ELSE IF style = NoStyle THEN [st EXCEPT !.err = "IOError"]
                 ELSE IF style \notin AtomStyles THEN [st EXCEPT !.err = "ValueError"]
                 ELSE IF p + 1 > Len(lines) THEN [st EXCEPT !.err = "OSError"]
                 ELSE CheckAtomTypes(
                          ReadRows(lines, p + 2, 0, st.snap.N, st, "Atoms", style),
                          h.num_types)
        ELSE IF kw = "Velocities"
        THEN IF p + 1 > Len(lines) THEN [st EXCEPT !.err = "OSError"]
             ELSE ReadRows(lines, p + 2, 0, st.snap.N, st, "Velocities", NoStyle)
        ELSE IF kw = "Masses"
        THEN IF p + 1 > Len(lines) THEN [st EXCEPT !.err = "OSError"]
             ELSE ReadRows(lines, p + 2, 0, h.num_types,
                           [st EXCEPT !.masses = [set |-> TRUE, d |-> EmptyDict]],
                           "Masses", NoStyle)
        ELSE LET f == FieldOfSection(kw)
                 s0 == IF h.counts[f] # NoneInt
                       THEN [st EXCEPT !.snap[f] =
                                Topology(h.counts[f], NumMembers(kw), h.types[f])]
                       ELSE st
             IN  IF p + 1 > Len(lines) THEN [st EXCEPT !.err = "OSError"]
                 ELSE IF s0.snap[f] = NoneTopo THEN [st EXCEPT !.err = "AttributeError"]
                 ELSE CheckTopoTypes(
                          ReadRows(lines, p + 2, 0, s0.snap[f].N, s0, f, NoStyle), f)

Sections == {"Atoms", "Velocities", "Masses", "Bonds", "Angles", "Dihedrals", "Impropers"}

\* the body loop from line st.p on: lines that name no section are skipped
RECURSIVE ReadBody(_, _, _, _)
ReadBody(lines, st, h, atom_style) ==
    IF st.err # "none" \/ st.p > Len(lines) THEN st
    ELSE IF lines[st.p].kw \in Sections
         THEN ReadBody(lines, ReadSection(lines, st.p, st, h, atom_style), h, atom_style)
         ELSE ReadBody(lines, [st EXCEPT !.p = st.p + 1], h, atom_style)

\* snap.mass[snap.typeid == typeid] = m for every entry of masses
ApplyMasses(s, masses) ==
    IF ~masses.set \/ masses.d = EmptyDict THEN s
    ELSE LET a == SnapshotGet(SnapshotGet(s, "mass"), "typeid")
         IN  [a EXCEPT !.mass.data = [k \in 1..Len(a.mass.data) |->
                 IF a.typeid.data[k] \in DOMAIN masses.d
                 THEN masses.d[a.typeid.data[k]] ELSE a.mass.data[k]]]

NoSnapshot == Snapshot(0, UnitBox, NoneInt, NoneInt)

\* what read returns once the body is read: the per-type masses are applied
ReadResult(st) ==
    IF st.err # "none" THEN [err |-> st.err, snap |-> NoSnapshot]
    ELSE [err |-> "none", snap |-> ApplyMasses(st.snap, st.masses)]

\* DataFile.read: the error raised and the snapshot returned
DataRead(file, atom_style) ==
    IF ~file.exists THEN [err |-> "FileNotFoundError", snap |-> NoSnapshot]
    ELSE IF file.lines = <<>> THEN [err |-> "OSError", snap |-> NoSnapshot]
    ELSE LET h == ReadHeader(file.lines, 2, NoHeader)
         IN  IF h.err # "none" THEN [err |-> h.err, snap |-> NoSnapshot]
             ELSE IF \/ h.N = NoneInt \/ h.num_types = NoneInt
                     \/ DOMAIN h.lo # 1..3
                  THEN [err |-> "IOError", snap |-> NoSnapshot]
                  ELSE ReadResult(ReadBody(file.lines,
                                   [snap |-> Snapshot(h.N, Box(h.lo, h.hi, h.tilt),
                                                      NoneInt, h.num_types),
                                    id_map |-> EmptyDict,
                                    masses |-> [set |-> FALSE, d |-> EmptyDict],
                                    idx |-> 0, err |-> "none", p |-> h.p],
                                   h, atom_style))

\* ------------------------------------------------- DataFile as a process
\* the type ids and masses of an input: none assigned ("unset"), or a pattern
TypeidKinds == {"unset", "mixed", "upper", "ones"}

MassKinds == {"unset", "bytype", "distinct", "zero"}

TypeidValue(N, tk) ==
    [dims |-> <<N>>,
     data |-> [k \in 1..N |-> CASE tk = "mixed" -> 2 - (k % 2)
                                [] tk = "upper" -> 2
                                [] OTHER -> 1]]

MassValue(N, mk, typeid) ==
    [dims |-> <<N>>,
     data |-> [k \in 1..N |-> CASE mk = "bytype" -> typeid.data[k] * (One \div 2)
                                [] mk = "distinct" -> k * (One \div 4)
                                [] OTHER -> 0]]

AttrValue(N, a, tk, mk) ==
    CASE a = "id" -> [dims |-> <<N>>,
                      data |-> [k \in 1..N |-> IF mk = "bytype" THEN N + 1 - k ELSE k + 1]]
      [] a = "typeid" -> TypeidValue(N, tk)
      [] a = "mass" -> MassValue(N, mk, TypeidValue(N, tk))
      [] a = "position" -> [dims |-> <<N, 3>>,
                            data |-> [k \in 1..(3 * N) |-> k * (One \div 8) + 3]]
      [] a = "velocity" -> [dims |-> <<N, 3>>,
                            data |-> [k \in 1..(3 * N) |-> (2 - k) * (One \div 4)]]
      [] a = "image" -> [dims |-> <<N, 3>>, data |-> [k \in 1..(3 * N) |-> k - 2]]
      [] a = "molecule" -> [dims |-> <<N>>, data |-> [k \in 1..N |-> k]]
      [] OTHER -> [dims |-> <<N>>, data |-> [k \in 1..N |-> (k - 2) * (One \div 2) + 7]]

\* a populated record of two connections, listed out of id order
TopoValue(kind) ==
    LET nm == NumMembers(kind)
    IN  [N |-> 2, num_members |-> nm, num_types |-> NoneInt,
         id |-> [dims |-> <<2>>, data |-> <<2, 1>>],
         typeid |-> [dims |-> <<2>>, data |-> <<1, 2>>],
         members |-> [dims |-> <<2, nm>>, data |-> [k \in 1..(2 * nm) |-> 1 + (k % 2)]]]

\* the snapshots a caller writes: N particles, attributes set or unset, with
\* type ids and masses of several kinds
SnapshotInputs ==
    {[Snapshot(N, Box(<<0, 0, 0>>, <<One, One, 2 * One>>,
                      IF tk # "mixed" THEN NoneTilt
                      ELSE <<One \div 4, 0, -(One \div 2)>>),
               NoneInt, NoneInt)
        EXCEPT !.typeid = IF tk # "unset" THEN TypeidValue(N, tk) ELSE NoneArr,
               !.mass = IF mk # "unset"
                        THEN MassValue(N, mk, IF tk # "unset" THEN TypeidValue(N, tk)
                                              ELSE Full(<<N>>, 1))
                        ELSE NoneArr,
               !.id = IF "id" \in set THEN AttrValue(N, "id", tk, mk) ELSE NoneArr,
               !.position = IF moving >= 1 THEN AttrValue(N, "position", tk, mk) ELSE NoneArr,
               !.velocity = IF moving >= 1 THEN AttrValue(N, "velocity", tk, mk) ELSE NoneArr,
               !.image = IF moving = 2 THEN AttrValue(N, "image", tk, mk) ELSE NoneArr,
               !.molecule = IF "molecule" \in set
                            THEN AttrValue(N, "molecule", tk, mk) ELSE NoneArr,
               !.charge = IF "charge" \in set
                          THEN AttrValue(N, "charge", tk, mk) ELSE NoneArr,
               !.bonds = IF topology /\ tk = "mixed" THEN TopoValue("Bonds") ELSE NoneTopo,
               !.angles = IF topology /\ tk = "upper" THEN TopoValue("Angles") ELSE NoneTopo,
               !.dihedrals = IF topology /\ tk = "ones"
                             THEN TopoValue("Dihedrals") ELSE NoneTopo,
               !.impropers = IF topology /\ tk = "unset"
                             THEN TopoValue("Impropers") ELSE NoneTopo] :
        N \in 0..MaxAtoms, set \in SUBSET {"id", "molecule", "charge"},
        moving \in 0..2, tk \in TypeidKinds, mk \in MassKinds,
        topology \in BOOLEAN}

\* the ids of N rows: every list of N different ids out of 1..N+1
IdLists(N) ==
    {ids \in [1..N -> 1..(N + 1)] : \A i, j \in 1..N : ids[i] = ids[j] => i = j}

\* a file as LAMMPS writes it: the Atoms rows carry ids atom_ids, the
\* Velocities rows (when vel_order is not empty) list the same particles in
\* the order vel_order, before or after Atoms, and one topology section
\* (when topo_ids is not empty) carries ids topo_ids
LammpsFile(atom_ids, style_named, vel_order, vel_first, kind, topo_ids) ==
    LET N == Len(atom_ids)
        M == Len(topo_ids)
        f == FieldOfSection(kind)
        header ==
            <<Line("title", <<>>, ""), BlankLine, Line("atoms", <<IntTok(N)>>, "")>>
            \o (IF M > 0 THEN <<Line(f, <<IntTok(M)>>, "")>> ELSE <<>>)
            \o <<Line("atom types", <<IntTok(2)>>, "")>>
            \o (IF M > 0 THEN <<Line(TypesKw(f), <<IntTok(1)>>, "")>> ELSE <<>>)
            \o <<Line("xlo xhi", <<FloatTok(0), FloatTok(One)>>, ""),
                 Line("ylo yhi", <<FloatTok(0), FloatTok(One)>>, ""),
                 Line("zlo zhi", <<FloatTok(0), FloatTok(One)>>, "")>>
        atoms ==
            <<BlankLine, Line("Atoms", <<>>, IF style_named THEN "atomic" ELSE NoStyle),
              BlankLine>>
            \o [i \in 1..N |->
                   Line("", <<IntTok(atom_ids[i]), IntTok(1 + (atom_ids[i] % 2)),
                              FloatTok(atom_ids[i] * (One \div 8)), FloatTok(0),
                              FloatTok(0)>>, "")]
        velocities ==
            IF vel_order = <<>> THEN <<>>
            ELSE <<BlankLine, Line("Velocities", <<>>, ""), BlankLine>>
                 \o [i \in 1..N |->
                        Line("", <<IntTok(atom_ids[vel_order[i] + 1]),
                                   FloatTok(atom_ids[vel_order[i] + 1] * (One \div 4)),
                                   FloatTok(0), FloatTok(0)>>, "")]
        topology ==
            IF M = 0 THEN <<>>
            ELSE <<BlankLine, Line(kind, <<>>, ""), BlankLine>>
                 \o [i \in 1..M |->
                        Line("", <<IntTok(topo_ids[i]), IntTok(1)>>
                                 \o [k \in 1..NumMembers(kind) |-> IntTok(1)], "")]
    IN  File(header
             \o (IF vel_first THEN velocities \o atoms ELSE atoms \o velocities)
             \o topology)

ForeignFiles ==
    UNION {{LammpsFile(atom_ids, style_named, vel_order, vel_first, kind, topo_ids) :
               atom_ids \in IdLists(N),
               style_named \in BOOLEAN,
               vel_order \in {<<>>} \cup OrderPerms(N),
               vel_first \in BOOLEAN,
               kind \in TopologyKinds,
               topo_ids \in {<<>>} \cup IdLists(N)} : N \in 1..MaxAtoms}

\* a file whose body holds some of Atoms, Velocities, Masses and one topology
\* section, in the order given; Atoms and Velocities list the particles in
\* the same row order, and type t has the mass (t + 1) / 4
SectionFile(atom_ids, kind, order) ==
    LET N == Len(atom_ids)
        f == FieldOfSection(kind)
        header ==
            <<Line("title", <<>>, ""), BlankLine, Line("atoms", <<IntTok(N)>>, ""),
              Line(f, <<IntTok(1)>>, ""),
              Line("atom types", <<IntTok(2)>>, ""),
              Line(TypesKw(f), <<IntTok(1)>>, ""),
              Line("xlo xhi", <<FloatTok(0), FloatTok(One)>>, ""),
              Line("ylo yhi", <<FloatTok(0), FloatTok(One)>>, ""),
              Line("zlo zhi", <<FloatTok(0), FloatTok(One)>>, "")>>
        rows(name) ==
            CASE name = "Atoms" ->
                   [i \in 1..N |->
                       Line("", <<IntTok(atom_ids[i]), IntTok(1 + (atom_ids[i] % 2)),
                                  FloatTok(atom_ids[i] * (One \div 8)), FloatTok(0),
                                  FloatTok(0)>>, "")]
              [] name = "Velocities" ->
                   [i \in 1..N |->
                       Line("", <<IntTok(atom_ids[i]), FloatTok(atom_ids[i] * (One \div 4)),
                                  FloatTok(0), FloatTok(0)>>, "")]
              [] name = "Masses" ->
                   [t \in 1..2 |-> Line("", <<IntTok(t), FloatTok((t + 1) * (One \div 4))>>, "")]
              [] OTHER ->
                   <<Line("", <<IntTok(1), IntTok(1)>>
                              \o [k \in 1..NumMembers(kind) |-> IntTok(1)], "")>>
        block(name) ==
            <<BlankLine, Line(name, <<>>, IF name = "Atoms" THEN "atomic" ELSE ""),
              BlankLine>> \o rows(name)
        body[k \in 0..Len(order)] ==
            IF k = 0 THEN <<>> ELSE body[k - 1] \o block(order[k])
    IN  File(header \o body[Len(order)])

\* the orders: any of the four sections, each at most once
SectionOrders(kind) ==
    {o \in UNION {[1..n -> {"Atoms", "Velocities", "Masses", kind}] : n \in 1..4} :
        \A i, j \in 1..Len(o) : o[i] = o[j] => i = j}

SectionFiles ==
    UNION {{SectionFile(atom_ids, nk[2], order) :
               atom_ids \in IdLists(nk[1]), order \in SectionOrders(nk[2])} :
           nk \in (1..MaxAtoms) \X TopologyKinds}

\* a DataFile object for a file with its sections in some order
DataSectionInit ==
    /\ dpc = "foreign"
    /\ dsnap = NoSnapshot
    /\ dorig = NoSnapshot
    /\ dstyle = NoStyle
    /\ dfile \in SectionFiles
    /\ dobj = NoStyle
    /\ dcerr = "none"
    /\ drerr = "none"
    /\ dout = NoSnapshot

\* a file that declares two atom types and one type of one topology kind:
\* row i of Atoms has type atom_types[i], row i of the topology section has
\* type topo_types[i]
TypedFile(atom_types, kind, topo_types) ==
    LET N == Len(atom_types)
        M == Len(topo_types)
        f == FieldOfSection(kind)
    IN  File(<<Line("title", <<>>, ""), BlankLine, Line("atoms", <<IntTok(N)>>, ""),
               Line(f, <<IntTok(M)>>, ""),
               Line("atom types", <<IntTok(2)>>, ""),
               Line(TypesKw(f), <<IntTok(1)>>, ""),
               Line("xlo xhi", <<FloatTok(0), FloatTok(One)>>, ""),
               Line("ylo yhi", <<FloatTok(0), FloatTok(One)>>, ""),
               Line("zlo zhi", <<FloatTok(0), FloatTok(One)>>, ""),
               BlankLine, Line("Atoms", <<>>, "atomic"), BlankLine>>
             \o [i \in 1..N |->
                    Line("", <<IntTok(i), IntTok(atom_types[i]), FloatTok(i * (One \div 8)),
                               FloatTok(0), FloatTok(0)>>, "")]
             \o <<BlankLine, Line(kind, <<>>, ""), BlankLine>>
             \o [i \in 1..M |->
                    Line("", <<IntTok(i), IntTok(topo_types[i])>>
                             \o [k \in 1..NumMembers(kind) |-> IntTok(1)], "")])

\* the type ids a row carries: in range, zero, negative and too large
TypeInputs == (-1)..(MaxTypes + 1)

TypedFiles ==
    UNION {{TypedFile(atom_types, kind, topo_types) :
               atom_types \in [1..N -> TypeInputs], kind \in TopologyKinds,
               topo_types \in UNION {[1..M -> TypeInputs] : M \in 1..N}} :
           N \in 1..MaxAtoms}

\* a DataFile object for a file with type ids of every kind
DataTypedInit ==
    /\ dpc = "foreign"
    /\ dsnap = NoSnapshot
    /\ dorig = NoSnapshot
    /\ dstyle = NoStyle
    /\ dfile \in TypedFiles
    /\ dobj = NoStyle
    /\ dcerr = "none"
    /\ drerr = "none"
    /\ dout = NoSnapshot

\* snapshots with every combination of molecule, charge and the four
\* topology records, each record unassigned, assigned but empty, or populated
StyleInputs ==
    {[Snapshot(N, UnitBox, NoneInt, NoneInt)
        EXCEPT !.molecule = IF molecule THEN AttrValue(N, "molecule", "ones", "unset")
                            ELSE NoneArr,
               !.charge = IF charge THEN AttrValue(N, "charge", "ones", "unset")
                          ELSE NoneArr,
               !.bonds = topology["bonds"],
               !.angles = topology["angles"],
               !.dihedrals = topology["dihedrals"],
               !.impropers = topology["impropers"]] :
        N \in 1..MaxAtoms, molecule \in BOOLEAN, charge \in BOOLEAN,
        topology \in {t \in [Range(TopoFields) ->
                                {NoneTopo} \cup {TopoValue(k) : k \in TopologyKinds}
                                \cup {Topology(0, NumMembers(k), NoneInt) :
                                         k \in TopologyKinds}] :
                         \A f \in Range(TopoFields) :
                             t[f] = NoneTopo \/ t[f].num_members = NumMembers(KindOf(f))}}

\* a snapshot about to be written to a path that holds no file
DataStyleInit ==
    /\ dpc = "new"
    /\ dsnap \in StyleInputs
    /\ dorig = dsnap
    /\ dstyle = NoStyle
    /\ dfile = NoFile
    /\ dobj = NoStyle
    /\ dcerr = "none"
    /\ drerr = "none"
    /\ dout = NoSnapshot

DataIdle ==
    /\ dpc = "none"
    /\ dsnap = NoSnapshot
    /\ dorig = NoSnapshot
    /\ dstyle = NoStyle
    /\ dfile = NoFile
    /\ dobj = NoStyle
    /\ dcerr = "none"
    /\ drerr = "none"
    /\ dout = NoSnapshot

\* either a snapshot about to be written to a path that holds no file (or, for
\* the snapshots with topology, an unrelated file), or a DataFile object for
\* a file written by LAMMPS
DataInit ==
    /\ dstyle = NoStyle
    /\ dcerr = "none"
    /\ drerr = "none"
    /\ dout = NoSnapshot
    /\ \/ /\ dpc = "new"
          /\ dsnap \in SnapshotInputs
          /\ dorig = dsnap
          /\ dfile = IF \E f \in Range(TopoFields) : dsnap[f] # NoneTopo
                     THEN File(<<Line("title", <<>>, "")>>) ELSE NoFile
          /\ dobj = NoStyle
       \/ /\ dpc = "foreign"
          /\ dsnap = NoSnapshot
          /\ dorig = NoSnapshot
          /\ dfile \in ForeignFiles
          /\ dobj \in {NoStyle, "atomic", "full"}

\* data = DataFile.create(filename, snapshot, atom_style)
DataCreateAct(atom_style) ==
    /\ dpc = "new"
    /\ LET r == DataCreate(dsnap, atom_style)
       IN  /\ dcerr' = r.err
           /\ dfile' = IF r.opened THEN File(r.lines) ELSE dfile
           /\ dsnap' = r.snapshot
    /\ dstyle' = atom_style
    /\ dobj' = NoStyle
    /\ dpc' = "created"
    /\ UNCHANGED <<dorig, drerr, dout, notDataVars>>

\* data.read()
DataReadAct ==
    /\ dpc \in {"created", "foreign"}
    /\ LET r == DataRead(dfile, dobj)
       IN  /\ drerr' = r.err
           /\ dout' = r.snap
    /\ dpc' = "read"
    /\ UNCHANGED <<dsnap, dorig, dstyle, dfile, dobj, dcerr, notDataVars>>

DataNext ==
    \/ \E atom_style \in AtomStyles \cup {NoStyle, "bond"} : DataCreateAct(atom_style)
    \/ DataReadAct

\* ------------------------------------------------------------- DumpFile
\* a schema: for every attribute the columns it names; no columns when the
\* attribute is not in the schema, one for a scalar, three for a vector
EmptySchema == [a \in Range(SnapshotAttrs) |-> <<>>]

\* schema=None
NoSchema == [a \in Range(SnapshotAttrs) |-> <<-1>>]

SchemaKeys(schema) == {a \in Range(SnapshotAttrs) : schema[a] # <<>>}

\* the LAMMPS name of component idx (0-based) of an attribute
LammpsField(key, idx) ==
    CASE key = "id" -> "id"
      [] key = "molecule" -> "mol"
      [] key = "typeid" -> "type"
      [] key = "mass" -> "mass"
      [] key = "charge" -> "q"
      [] key = "position" -> <<"x", "y", "z">>[idx + 1]
      [] key = "image" -> <<"ix", "iy", "iz">>[idx + 1]
      [] OTHER -> <<"vx", "vy", "vz">>[idx + 1]

\* the attribute and component a LAMMPS name stands for
LammpsKey(field) ==
    CASE field = "id" -> [key |-> "id", idx |-> -1]
      [] field = "mol" -> [key |-> "molecule", idx |-> -1]
      [] field = "type" -> [key |-> "typeid", idx |-> -1]
      [] field = "mass" -> [key |-> "mass", idx |-> -1]
      [] field = "q" -> [key |-> "charge", idx |-> -1]
      [] field = "x" -> [key |-> "position", idx |-> 0]
      [] field = "y" -> [key |-> "position", idx |-> 1]
      [] field = "z" -> [key |-> "position", idx |-> 2]
      [] field = "ix" -> [key |-> "image", idx |-> 0]
      [] field = "iy" -> [key |-> "image", idx |-> 1]
      [] field = "iz" -> [key |-> "image", idx |-> 2]
      [] field = "vx" -> [key |-> "velocity", idx |-> 0]
      [] field = "vy" -> [key |-> "velocity", idx |-> 1]
      [] OTHER -> [key |-> "velocity", idx |-> 2]

LammpsFields ==
    {"id", "mol", "type", "mass", "q", "x", "y", "z", "ix", "iy", "iz", "vx", "vy", "vz"}

\* the entries (column, (attribute, index)) of a schema; the index of a
\* scalar is -1
SchemaEntries(schema) ==
    {[col |-> schema[ak[1]][ak[2]], key |-> ak[1],
      idx |-> IF ak[1] \in VectorAttrs THEN ak[2] - 1 ELSE -1] :
        ak \in {ak \in Range(SnapshotAttrs) \X (1..3) : ak[2] <= Len(schema[ak[1]])}}

\* dump_row.sort(key=column), for a schema whose columns are all different
RECURSIVE SortByCol(_)
SortByCol(entries) ==
    IF entries = {} THEN <<>>
    ELSE LET e == CHOOSE e \in entries : \A d \in entries : e.col <= d.col
         IN  <<e>> \o SortByCol(entries \ {e})

DumpRow(schema) == SortByCol(SchemaEntries(schema))

MinOf(s) == CHOOSE x \in s : \A y \in s : x <= y

MaxOf(s) == CHOOSE x \in s : \A y \in s : x >= y

\* one value of a row of ITEM: ATOMS
DumpValue(s, has_id, e, i) ==
    IF e.key = "id" THEN IntTok(IF has_id THEN s.id.data[i + 1] ELSE i + 1)
    ELSE LET arr == s[e.key]
             val == IF e.idx >= 0 THEN Row(arr, i)[e.idx + 1] ELSE arr.data[i + 1]
         IN  IF e.key \in {"typeid", "molecule", "image"} THEN IntTok(val)
             ELSE IF e.key \in {"position", "velocity"} THEN Fixed8(val)
             ELSE Fixed6(val)

\* the getters create calls on a snapshot with particles
RECURSIVE DumpTouch(_, _, _)
DumpTouch(s, dump_row, k) ==
    IF k > Len(dump_row) THEN s
    ELSE DumpTouch(IF dump_row[k].key = "id" THEN s ELSE SnapshotGet(s, dump_row[k].key),
                   dump_row, k + 1)

\* the lines of one frame
DumpFrame(snapshot, dump_row) ==
    LET s == IF snapshot.N > 0 THEN DumpTouch(snapshot, dump_row, 1) ELSE snapshot
        has_id == SnapshotHas(snapshot, "id")
        box == snapshot.box
        bounds ==
            IF box.tilt # NoneTilt
            THEN LET xy == box.tilt[1]
                     xz == box.tilt[2]
                     yz == box.tilt[3]
                     lo == <<box.low[1] + MinOf({0, xy, xz, xy + xz}),
                             box.low[2] + MinOf({0, yz}), box.low[3]>>
                     hi == <<box.high[1] + MaxOf({0, xy, xz, xy + xz}),
                             box.high[2] + MaxOf({0, yz}), box.high[3]>>
                 IN  <<Line("ITEM: BOX BOUNDS", <<>>, "xy xz yz pp pp pp")>>
                     \o [i \in 1..3 |->
                            Line("", <<Fixed6(lo[i]), Fixed6(hi[i]), Fixed6(box.tilt[i])>>, "")]
            ELSE <<Line("ITEM: BOX BOUNDS", <<>>, "pp pp pp")>>
                 \o [i \in 1..3 |->
                        Line("", <<Fixed6(box.low[i]), Fixed6(box.high[i])>>, "")]
    IN  [snap |-> s,
         lines |->
            <<Line("ITEM: TIMESTEP", <<>>, ""),
              Line("", <<IF snapshot.step = NoneInt THEN WordTok ELSE IntTok(snapshot.step)>>, ""),
              Line("ITEM: NUMBER OF ATOMS", <<>>, ""),
              Line("", <<IntTok(snapshot.N)>>, "")>>
            \o bounds
            \o <<Line("ITEM: ATOMS",
                      [k \in 1..Len(dump_row) |->
                          [k |-> LammpsField(dump_row[k].key, dump_row[k].idx), v |-> 0]],
                      "")>>
            \o [i \in 1..snapshot.N |->
                   Line("", [k \in 1..Len(dump_row) |-> DumpValue(s, has_id, dump_row[k], i - 1)],
                        "")]]

\* DumpFile.create: the lines written and the snapshots as the getters
\* leave them; the object returned holds the filename and the schema
RECURSIVE DumpCreate(_, _)
DumpCreate(schema, snapshots) ==
    IF snapshots = <<>> THEN [lines |-> <<>>, snapshots |-> <<>>]
    ELSE LET first == DumpFrame(Head(snapshots), DumpRow(schema))
             rest == DumpCreate(schema, Tail(snapshots))
         IN  [lines |-> first.lines \o rest.lines,
              snapshots |-> <<first.snap>> \o rest.snapshots]

\* ------------------------------------------------------ DumpFile.__iter__
\* int(line) of a whole line
IsIntLine(line) == line.kw = "" /\ Len(line.toks) = 1 /\ IsInt(line.toks[1])

\* len(line.split()) of the box header
BoxHeaderLen(line) ==
    CASE line.style = "xy xz yz pp pp pp" -> 9
      [] line.style = "pp pp pp" -> 6
      [] OTHER -> 3 + Len(line.toks)

\* the timestep marker taken in whatever state the scanner is
ScanStepAny(lines, sc) ==
    IF lines[sc.c].kw = "ITEM: TIMESTEP"
    THEN IF sc.q > Len(lines) THEN [sc EXCEPT !.err = "OSError"]
         ELSE IF ~IsIntLine(lines[sc.q]) THEN [sc EXCEPT !.err = "ValueError"]
         ELSE [sc EXCEPT !.state = sc.state + 1, !.step = lines[sc.q].toks[1].v,
                         !.q = sc.q + 1]
    ELSE sc

\* state 0: the timestep marker, then the step on the next line
ScanStep(lines, sc) ==
    IF sc.state = 0 /\ lines[sc.c].kw = "ITEM: TIMESTEP"
    THEN IF sc.q > Len(lines) THEN [sc EXCEPT !.err = "OSError"]
         ELSE IF ~IsIntLine(lines[sc.q]) THEN [sc EXCEPT !.err = "ValueError"]
         ELSE [sc EXCEPT !.state = 1, !.step = lines[sc.q].toks[1].v, !.q = sc.q + 1]
    ELSE sc

\* state 1: the atom-count marker, then N on the next line
ScanNatoms(lines, sc) ==
    IF sc.err = "none" /\ sc.state = 1 /\ lines[sc.c].kw = "ITEM: NUMBER OF ATOMS"
    THEN IF sc.q > Len(lines) THEN [sc EXCEPT !.err = "OSError"]
         ELSE IF ~IsIntLine(lines[sc.q]) THEN [sc EXCEPT !.err = "ValueError"]
         ELSE [sc EXCEPT !.state = 2, !.N = lines[sc.q].toks[1].v, !.q = sc.q + 1]
    ELSE sc

\* the error of reading the three lines of bounds, in the order it arises
BoxLinesError(lines, q) ==
    LET bad(i) == \/ q + i - 1 > Len(lines)
                  \/ \E k \in 1..Len(RowToks(lines[q + i - 1])) :
                        ~IsNumber(RowToks(lines[q + i - 1])[k])
    IN  IF \E i \in 1..3 : bad(i)
        THEN LET i == MinOf({j \in 1..3 : bad(j)})
             IN  IF q + i - 1 > Len(lines) THEN "OSError" ELSE "ValueError"
        ELSE "none"

\* state 2: the box marker, then three lines of bounds
ScanBox(lines, sc) ==
    IF sc.err = "none" /\ sc.state = 2 /\ lines[sc.c].kw = "ITEM: BOX BOUNDS"
    THEN LET n == BoxHeaderLen(lines[sc.c])
             is_triclinic == n = 9
             row(i) == RowToks(lines[sc.q + i - 1])
         IN  IF n # 9 /\ n # 6 THEN [sc EXCEPT !.err = "IOError"]
             ELSE IF BoxLinesError(lines, sc.q) # "none"
             THEN [sc EXCEPT !.err = BoxLinesError(lines, sc.q)]
             ELSE IF \E i \in 1..3 : Len(row(i)) < 2 THEN [sc EXCEPT !.err = "ValueError"]
             ELSE IF is_triclinic /\ \E i \in 1..3 : Len(row(i)) < 3
             THEN [sc EXCEPT !.err = "IndexError"]
             ELSE LET lo == [i \in 1..3 |-> ParseFloat(row(i)[1])]
                      hi == [i \in 1..3 |-> ParseFloat(row(i)[2])]
                  IN  IF is_triclinic
                      THEN LET xy == ParseFloat(row(1)[3])
                               xz == ParseFloat(row(2)[3])
                               yz == ParseFloat(row(3)[3])
                           IN  [sc EXCEPT !.state = 3, !.q = sc.q + 3,
                                   !.box = Box(<<lo[1] - MinOf({0, xy, xz, xy + xz}),
                                                 lo[2] - MinOf({0, yz}), lo[3]>>,
                                               <<hi[1] - MaxOf({0, xy, xz, xy + xz}),
                                                 hi[2] - MaxOf({0, yz}), hi[3]>>,
                                               <<xy, xz, yz>>)]
                      ELSE [sc EXCEPT !.state = 3, !.q = sc.q + 3,
                               !.box = Box(lo, hi, NoneTilt)]
    ELSE sc

\* the schema with column 0 for the components a header does not name
RECURSIVE InferSchemaZero(_, _, _)
InferSchemaZero(fields, i, schema) ==
    IF i > Len(fields) THEN schema
    ELSE IF fields[i] \in LammpsFields
    THEN LET e == LammpsKey(fields[i])
             old == IF schema[e.key] = <<>> /\ e.idx >= 0
                    THEN <<0, 0, 0>> ELSE schema[e.key]
         IN  InferSchemaZero(fields, i + 1,
                 [schema EXCEPT ![e.key] = IF e.idx >= 0
                                           THEN [old EXCEPT ![e.idx + 1] = i - 1]
                                           ELSE <<i - 1>>])
    ELSE InferSchemaZero(fields, i + 1, schema)

\* the schema inferred from the fields of an ITEM: ATOMS header
RECURSIVE InferSchema(_, _, _)
InferSchema(fields, i, schema) ==
    IF i > Len(fields) THEN schema
    ELSE IF fields[i] \in LammpsFields
    THEN LET e == LammpsKey(fields[i])
             old == IF schema[e.key] = <<>> /\ e.idx >= 0
                    THEN <<NoneInt, NoneInt, NoneInt>> ELSE schema[e.key]
         IN  InferSchema(fields, i + 1,
                 [schema EXCEPT ![e.key] = IF e.idx >= 0
                                           THEN [old EXCEPT ![e.idx + 1] = i - 1]
                                           ELSE <<i - 1>>])
    ELSE InferSchema(fields, i + 1, schema)

\* the error of reading one attribute from the columns cols of a row: the
\* first column that is missing or does not parse
CellError(atom, cols, as_int) ==
    LET bad(k) == \/ cols[k] >= Len(atom)
                  \/ IF as_int THEN ~IsInt(atom[cols[k] + 1])
                     ELSE ~IsNumber(atom[cols[k] + 1])
    IN  IF \E k \in 1..Len(cols) : bad(k)
        THEN LET k == MinOf({j \in 1..Len(cols) : bad(j)})
             IN  IF cols[k] >= Len(atom) THEN "IndexError" ELSE "ValueError"
        ELSE "none"

\* the attributes in the order a row is read
ReadOrder ==
    <<"id", "position", "velocity", "image", "molecule", "typeid", "charge", "mass">>

IntAttrs == {"id", "image", "molecule", "typeid"}

\* row i (0-based) of a frame, attribute k of ReadOrder onward
RECURSIVE ScanCells(_, _, _, _, _)
ScanCells(acc, atom, i, schema, k) ==
    IF k > Len(ReadOrder) \/ acc.err # "none" THEN acc
    ELSE LET a == ReadOrder[k]
             cols == schema[a]
             e == CellError(atom, cols, a \in IntAttrs)
             vals == [j \in 1..Len(cols) |->
                         IF a \in IntAttrs THEN atom[cols[j] + 1].v
                         ELSE ParseFloat(atom[cols[j] + 1])]
         IN  IF cols = <<>> THEN ScanCells(acc, atom, i, schema, k + 1)
             ELSE IF e # "none" THEN [acc EXCEPT !.err = e]
             ELSE IF a = "id" /\ vals[1] = i + 1 THEN ScanCells(acc, atom, i, schema, k + 1)
             ELSE ScanCells([acc EXCEPT !.snap = SetItem(acc.snap, a, i, vals)],
                            atom, i, schema, k + 1)

\* the rows of a frame from row i on
RECURSIVE ScanRows(_, _, _, _)
ScanRows(lines, sc, i, schema) ==
    IF i >= sc.snap.N \/ sc.err # "none" THEN sc
    ELSE IF sc.q > Len(lines) THEN [sc EXCEPT !.err = "OSError"]
    ELSE ScanRows(lines,
                  [ScanCells(sc, RowToks(lines[sc.q]), i, schema, 1) EXCEPT !.q = sc.q + 1],
                  i + 1, schema)

\* state 3 with the inferred schema used for the frame and not kept: the
\* object is left with a schema of no columns
ScanAtomsForget(lines, sc) ==
    IF sc.err = "none" /\ sc.state = 3 /\ lines[sc.c].kw = "ITEM: ATOMS"
    THEN LET fields == [k \in 1..Len(lines[sc.c].toks) |-> lines[sc.c].toks[k].k]
             inferred == InferSchema(fields, 1, EmptySchema)
             schema == IF sc.schema = NoSchema THEN inferred ELSE sc.schema
         IN  IF sc.schema = NoSchema
                /\ \E a \in VectorAttrs : \E k \in 1..Len(inferred[a]) : inferred[a][k] = NoneInt
             THEN [sc EXCEPT !.state = 4, !.err = "IOError"]
             ELSE ScanRows(lines,
                           [sc EXCEPT !.state = 4, !.schema = EmptySchema,
                                      !.snap = Snapshot(sc.N, sc.box, sc.step, NoneInt)],
                           0, schema)
    ELSE sc

\* state 3: the atoms marker, the schema of the object or the one inferred
\* from the marker line (which is then stored on the object), and N rows
ScanAtoms(lines, sc) ==
    IF sc.err = "none" /\ sc.state = 3 /\ lines[sc.c].kw = "ITEM: ATOMS"
    THEN LET fields == [k \in 1..Len(lines[sc.c].toks) |-> lines[sc.c].toks[k].k]
             inferred == InferSchema(fields, 1, EmptySchema)
             schema == IF sc.schema = NoSchema THEN inferred ELSE sc.schema
         IN  IF sc.schema = NoSchema
                /\ \E a \in VectorAttrs : \E k \in 1..Len(inferred[a]) : inferred[a][k] = NoneInt
             THEN [sc EXCEPT !.state = 4, !.err = "IOError"]
             ELSE ScanRows(lines,
                           [sc EXCEPT !.state = 4, !.schema = schema,
                                      !.snap = Snapshot(sc.N, sc.box, sc.step, NoneInt)],
                           0, schema)
    ELSE sc

\* numpy.argsort: the 0-based places of the entries in ascending order, equal
\* entries in their original order
Argsort(s) ==
    [k \in 1..Len(s) |->
        (CHOOSE i \in 1..Len(s) :
            Cardinality({j \in 1..Len(s) : s[j] < s[i] \/ (s[j] = s[i] /\ j < i)}) = k - 1) - 1]

\* state 4: the frame is complete; sort by id when asked and ids were stored
ScanFinish(sc, sort_ids) ==
    IF sort_ids /\ SnapshotHas(sc.snap, "id")
    THEN [sc EXCEPT !.snap = SnapshotReorder(sc.snap, Argsort(sc.snap.id.data), FALSE).obj]
    ELSE sc

\* copy_from=None
NoCopy == Snapshot(-1, UnitBox, NoneInt, NoneInt)

\* the index of every id by its rank among the ids of the reference
CopyIdMapByRank(copy_from) ==
    LET ids == IF SnapshotHas(copy_from, "id") THEN copy_from.id.data
               ELSE [i \in 1..copy_from.N |-> i]
    IN  [id_ \in Range(ids) |-> Cardinality({j \in Range(ids) : j < id_})]

\* the index in the reference of every id of the frame: copy_id_map keeps the
\* last place of an id of the reference, and a missing id is a KeyError
CopyIdMap(copy_from) ==
    LET ids == IF SnapshotHas(copy_from, "id") THEN copy_from.id.data
               ELSE [i \in 1..copy_from.N |-> i]
    IN  [id_ \in Range(ids) |-> MaxOf({i \in 1..Len(ids) : ids[i] = id_}) - 1]

\* state 4, second half: copy what the frame lacks from the reference
RECURSIVE CopyAttrs(_, _, _, _)
CopyAttrs(s, copy_from, copy_id, attrs) ==
    IF attrs = <<>> THEN s
    ELSE LET a == Head(attrs)
         IN  CopyAttrs(IF ~SnapshotHas(s, a) /\ SnapshotHas(copy_from, a)
                       THEN SnapshotSet(s, a, Take(copy_from[a], copy_id)).obj
                       ELSE s,
                       copy_from, copy_id, Tail(attrs))

CopyTopology(s, copy_from) ==
    [f \in DOMAIN s |->
        IF f \in Range(TopoFields) /\ SnapshotHasTopology(copy_from, f)
        THEN copy_from[f] ELSE s[f]]

ScanCopy(sc, copy_from) ==
    IF copy_from = NoCopy THEN sc
    ELSE IF sc.snap.N # copy_from.N THEN [sc EXCEPT !.err = "ValueError"]
    ELSE LET copy_id_map == CopyIdMap(copy_from)
             ids == IF SnapshotHas(sc.snap, "id") THEN sc.snap.id.data
                    ELSE [i \in 1..sc.snap.N |-> i]
         IN  IF \E k \in 1..Len(ids) : ids[k] \notin DOMAIN copy_id_map
             THEN [sc EXCEPT !.err = "KeyError"]
             ELSE [sc EXCEPT !.snap =
                      CopyTopology(CopyAttrs(sc.snap, copy_from,
                                             [k \in 1..Len(ids) |-> copy_id_map[ids[k]]],
                                             <<"typeid", "molecule", "charge", "mass">>),
                                   copy_from)]

\* the loop of the generator from the line at c until it yields, raises or
\* reaches the end of the file; q is the next line the file handle returns
RECURSIVE Scan(_, _, _, _)
Scan(lines, sc, sort_ids, copy_from) ==
    IF sc.c > Len(lines) THEN [sc EXCEPT !.kind = "stop"]
    ELSE LET r == ScanAtoms(lines, ScanBox(lines, ScanNatoms(lines, ScanStep(lines, sc))))
         IN  IF r.err # "none" THEN [r EXCEPT !.kind = "raise"]
             ELSE IF r.state = 4
             THEN LET y == ScanCopy(ScanFinish(r, sort_ids), copy_from)
                  IN  [y EXCEPT !.kind = IF y.err # "none" THEN "raise" ELSE "yield"]
             ELSE Scan(lines, [r EXCEPT !.c = r.q, !.q = r.q + 1], sort_ids, copy_from)

\* the local variables of the generator in state 0 with the line at c in
\* hand; step, N, box and snap are not bound
ScanStart(c, q, schema) ==
    [state |-> 0, c |-> c, q |-> q, step |-> NoneInt, N |-> NoneInt, box |-> UnitBox,
     snap |-> NoSnapshot, schema |-> schema, err |-> "none", kind |-> ""]

\* next() on the generator: the scanner starts in state 0 at line c
DumpNext(lines, c, q, schema, sort_ids, copy_from) ==
    Scan(lines, ScanStart(c, q, schema), sort_ids, copy_from)

\* ------------------------------------------------- DumpFile as a process
\* the schemas a caller passes: columns from 0 without gaps in any order,
\* with and without ids, and columns that leave gaps
DumpSchemas ==
    {[EmptySchema EXCEPT !.id = <<0>>, !.position = <<1, 2, 3>>],
     [EmptySchema EXCEPT !.position = <<0, 1, 2>>, !.velocity = <<3, 4, 5>>],
     [EmptySchema EXCEPT !.id = <<1>>, !.position = <<2, 3, 4>>],
     [EmptySchema EXCEPT !.id = <<0>>, !.typeid = <<2>>],
     [id |-> <<3>>, typeid |-> <<0>>, position |-> <<1, 2, 4>>,
      velocity |-> <<5, 6, 7>>, image |-> <<10, 9, 8>>, molecule |-> <<11>>,
      charge |-> <<13>>, mass |-> <<12>>]}

IdKinds == {"unset", "reversed", "shifted"}

\* frame k of a list: N particles, ids of one kind, every other attribute
\* set or none
DumpSnapshot(k, N, ik, populated, tilted, stepless) ==
    LET s == Snapshot(N, Box(<<0, 0, 0>>, <<One, One, 2 * One>>,
                             IF tilted THEN <<One \div 4, 0, -(One \div 2)>>
                             ELSE NoneTilt),
                      IF stepless THEN NoneInt ELSE 5 * (k - 1), NoneInt)
        value(a) == IF a = "id"
                    THEN (IF ik = "unset" THEN NoneArr
                          ELSE AttrValue(N, "id", "mixed",
                                         IF ik = "reversed" THEN "bytype" ELSE "zero"))
                    ELSE IF populated THEN AttrValue(N, a, "mixed", "bytype") ELSE NoneArr
    IN  [f \in DOMAIN s |-> IF f \in Range(SnapshotAttrs) THEN value(f) ELSE s[f]]

DumpInputs ==
    UNION {{[k \in 1..n |-> DumpSnapshot(k, Ns[k], iks[k], populated, tilted, stepless)] :
               Ns \in [1..n -> 0..MaxAtoms], iks \in [1..n -> IdKinds],
               populated \in BOOLEAN, tilted \in BOOLEAN, stepless \in BOOLEAN} :
           n \in 0..MaxFrames}

NoIter == [c |-> 0, q |-> 0]

\* self._frames = None
NoFrames == <<-1>>

\* DumpFile.__init__ with the default sort_ids and copy_from; returned tells
\* the object create returned from one the caller constructed
DumpFile(schema, returned) ==
    [schema |-> schema, sort_ids |-> TRUE, copy_from |-> NoCopy, frames |-> NoFrames,
     returned |-> returned]

DumpIdle ==
    /\ upc = "none"
    /\ usnaps = <<>>
    /\ uorig = <<>>
    /\ uschema = EmptySchema
    /\ ufile = NoFile
    /\ uobj = DumpFile(NoSchema, FALSE)
    /\ uit = NoIter
    /\ uout = <<>>
    /\ uerr = "none"

DumpInit ==
    /\ upc = "new"
    /\ usnaps \in DumpInputs
    /\ uorig = usnaps
    /\ uschema \in DumpSchemas
    /\ ufile = NoFile
    /\ uobj = DumpFile(NoSchema, FALSE)
    /\ uit = NoIter
    /\ uout = <<>>
    /\ uerr = "none"

\* f = DumpFile.create(filename, schema, snapshots)
DumpCreateAct ==
    /\ upc = "new"
    /\ LET r == DumpCreate(uschema, usnaps)
       IN  /\ ufile' = File(r.lines)
           /\ usnaps' = r.snapshots
    /\ uobj' = DumpFile(uschema, TRUE)
    /\ upc' = "created"
    /\ UNCHANGED <<uorig, uschema, uit, uout, uerr, notDumpVars>>

\* f.sort_ids = False
DumpSortOffAct ==
    /\ upc = "created"
    /\ uobj.sort_ids
    /\ uobj' = [uobj EXCEPT !.sort_ids = FALSE]
    /\ UNCHANGED <<upc, usnaps, uorig, uschema, ufile, uit, uout, uerr, notDumpVars>>

\* f = DumpFile(filename)
DumpOpenAct ==
    /\ upc = "created"
    /\ uobj.returned
    /\ uobj' = DumpFile(NoSchema, FALSE)
    /\ UNCHANGED <<upc, usnaps, uorig, uschema, ufile, uit, uout, uerr, notDumpVars>>

\* it = iter(f)
DumpIterAct ==
    /\ upc = "created"
    /\ upc' = "iterating"
    /\ uit' = [c |-> 1, q |-> 2]
    /\ UNCHANGED <<usnaps, uorig, uschema, ufile, uobj, uout, uerr, notDumpVars>>

\* next(it)
DumpNextAct ==
    /\ upc = "iterating"
    /\ LET r == DumpNext(ufile.lines, uit.c, uit.q, uobj.schema, uobj.sort_ids,
                         uobj.copy_from)
       IN  /\ uobj' = [uobj EXCEPT !.schema = r.schema]
           /\ CASE r.kind = "yield" ->
                     /\ uout' = Append(uout, r.snap)
                     /\ uit' = [c |-> r.q, q |-> r.q + 1]
                     /\ UNCHANGED <<upc, uerr>>
                [] r.kind = "stop" ->
                     /\ upc' = "done"
                     /\ UNCHANGED <<uout, uit, uerr>>
                [] OTHER ->
                     /\ upc' = "raised"
                     /\ uerr' = r.err
                     /\ UNCHANGED <<uout, uit>>
    /\ UNCHANGED <<usnaps, uorig, uschema, ufile, notDumpVars>>

\* the references a caller copies from: N particles, ids of one kind, the
\* molecule tags and, when full, type ids, charges, masses and bonds
DumpRef(N, ik, full) ==
    LET s == Snapshot(N, UnitBox, 0, NoneInt)
        arr(f) == [dims |-> <<N>>, data |-> [k \in 1..N |-> f[k]]]
    IN  [s EXCEPT !.id = IF ik = "unset" THEN NoneArr
                         ELSE AttrValue(N, "id", "mixed",
                                        IF ik = "reversed" THEN "bytype" ELSE "zero"),
                  !.molecule = arr([k \in 1..N |-> 10 + k]),
                  !.typeid = IF full THEN arr([k \in 1..N |-> 1 + (k % 2)]) ELSE NoneArr,
                  !.charge = IF full THEN arr([k \in 1..N |-> k * (One \div 8) + 1]) ELSE NoneArr,
                  !.mass = IF full THEN arr([k \in 1..N |-> (k + 2) * (One \div 8)]) ELSE NoneArr,
                  !.bonds = IF full THEN TopoValue("Bonds") ELSE NoneTopo]

DumpRefs == {DumpRef(N, ik, full) : N \in 0..MaxAtoms, ik \in IdKinds, full \in BOOLEAN}

\* f.copy_from = ref, before an iteration starts
DumpCopyFromAct(ref) ==
    /\ upc = "created"
    /\ uobj.copy_from = NoCopy
    /\ uobj' = [uobj EXCEPT !.copy_from = ref]
    /\ UNCHANGED <<upc, usnaps, uorig, uschema, ufile, uit, uout, uerr, notDumpVars>>

\* the (0-based) numbers of the lines that hold any marker
FindFramesAll(lines) ==
    LET at == {n \in 1..Len(lines) : lines[n].kw # ""}
    IN  [k \in 1..Cardinality(at) |->
            (CHOOSE n \in at : Cardinality({m \in at : m < n}) = k - 1) - 1]

\* _find_frames: the (0-based) numbers of the lines that hold the timestep
\* marker
FindFrames(lines) ==
    LET at == {n \in 1..Len(lines) : lines[n].kw = "ITEM: TIMESTEP"}
    IN  [k \in 1..Cardinality(at) |->
            (CHOOSE n \in at : Cardinality({m \in at : m < n}) = k - 1) - 1]

\* len(f): scans the file on the first call and keeps the result
DumpLenAct ==
    /\ upc \in {"created", "iterating", "done"}
    /\ uobj' = IF uobj.frames = NoFrames
               THEN [uobj EXCEPT !.frames = FindFrames(ufile.lines)] ELSE uobj
    /\ UNCHANGED <<upc, usnaps, uorig, uschema, ufile, uit, uout, uerr, notDumpVars>>

\* dump files another program wrote: every frame has its own ITEM: ATOMS
\* header and one particle, and column j (1-based) of its row holds j
AtomsHeaders ==
    {<<"id", "type", "x", "y", "z">>, <<"type", "id", "x", "y", "z">>,
     <<"id", "type", "x">>, <<"id", "type", "x", "y">>,
     <<"id", "type", "vx">>, <<"id", "type", "vx", "vy">>,
     <<"id", "type", "ix">>, <<"id", "type", "ix", "iy">>}

ForeignFrame(step, fields) ==
    <<Line("ITEM: TIMESTEP", <<>>, ""),
      Line("", <<IntTok(step)>>, ""),
      Line("ITEM: NUMBER OF ATOMS", <<>>, ""),
      Line("", <<IntTok(1)>>, ""),
      Line("ITEM: BOX BOUNDS", <<>>, "pp pp pp")>>
    \o [i \in 1..3 |-> Line("", <<FloatTok(-7 * (One \div 8)), FloatTok(7 * (One \div 8))>>, "")]
    \o <<Line("ITEM: ATOMS", [j \in 1..Len(fields) |-> [k |-> fields[j], v |-> 0]], ""),
          Line("", [j \in 1..Len(fields) |->
                      IF LammpsKey(fields[j]).key \in IntAttrs THEN IntTok(j)
                      ELSE FloatTok(j * (One \div 8))], "")>>

RECURSIVE ForeignLines(_, _)
ForeignLines(headers, k) ==
    IF k > Len(headers) THEN <<>>
    ELSE ForeignFrame(k - 1, headers[k]) \o ForeignLines(headers, k + 1)

ForeignDumps ==
    {File(ForeignLines(headers, 1)) :
        headers \in UNION {[1..n -> AtomsHeaders] : n \in 1..MaxFrames}}

\* f = DumpFile(filename) on a file that is already there
DumpForeignInit ==
    /\ upc = "created"
    /\ usnaps = <<>>
    /\ uorig = <<>>
    /\ uschema = EmptySchema
    /\ ufile \in ForeignDumps
    /\ uobj = DumpFile(NoSchema, FALSE)
    /\ uit = NoIter
    /\ uout = <<>>
    /\ uerr = "none"

\* ------------------------------------- the generator, one pass at a time
\* files whose sections come in any order: the sections of one frame of
\* ForeignFrame, each with the lines that belong to it, and a timestep
\* marker whose value line is missing
SectionKinds == {"step", "natoms", "box", "atoms", "cut"}

ScanSection(kind, k) ==
    LET frame == ForeignFrame(k, <<"id", "type", "x", "y", "z">>)
    IN  CASE kind = "step" -> SubSeq(frame, 1, 2)
          [] kind = "natoms" -> SubSeq(frame, 3, 4)
          [] kind = "box" -> SubSeq(frame, 5, 8)
          [] kind = "atoms" -> SubSeq(frame, 9, 10)
          [] OTHER -> SubSeq(frame, 1, 1)

RECURSIVE ScanSections(_, _)
ScanSections(kinds, k) ==
    IF k > Len(kinds) THEN <<>>
    ELSE ScanSection(kinds[k], k) \o ScanSections(kinds, k + 1)

\* a complete frame or nothing, then up to MaxSections sections
ScanFiles ==
    {File(first \o ScanSections(kinds, 1)) :
        first \in {<<>>, ForeignFrame(0, <<"type", "id", "x", "y", "z">>)},
        kinds \in UNION {[1..n -> SectionKinds] : n \in 1..MaxSections}}

\* the markers in the order a frame needs them
MarkerOrder ==
    <<"ITEM: TIMESTEP", "ITEM: NUMBER OF ATOMS", "ITEM: BOX BOUNDS", "ITEM: ATOMS">>

ScanIdle ==
    /\ usc = ScanStart(0, 0, NoSchema)
    /\ umarks = <<>>

\* f = DumpFile(filename) on one of the files
DumpScanInit ==
    /\ upc = "created"
    /\ usnaps = <<>>
    /\ uorig = <<>>
    /\ uschema = EmptySchema
    /\ ufile \in ScanFiles
    /\ uobj = DumpFile(NoSchema, FALSE)
    /\ uit = NoIter
    /\ uout = <<>>
    /\ uerr = "none"

\* the first next(iter(f)) enters the generator: state = 0 and the first
\* line is read
ScanOpenAct ==
    /\ upc = "created"
    /\ upc' = "loop"
    /\ usc' = ScanStart(1, 2, uobj.schema)
    /\ umarks' = <<>>
    /\ UNCHANGED <<usnaps, uorig, uschema, ufile, uobj, uit, uout, uerr>>
    /\ UNCHANGED <<recVars, labelVars, dataVars, boxVars, heapVars, genVars>>

\* one pass of the while loop over a line that is not empty: the four
\* tests in turn, then either the frame is completed and yielded, or the
\* next line is read
ScanLoopAct ==
    /\ upc = "loop"
    /\ usc.c <= Len(ufile.lines)
    /\ LET lines == ufile.lines
           r == ScanAtoms(lines, ScanBox(lines, ScanNatoms(lines, ScanStep(lines, usc))))
           y == ScanCopy(ScanFinish(r, uobj.sort_ids), uobj.copy_from)
       IN  /\ uobj' = [uobj EXCEPT !.schema = r.schema]
           /\ umarks' = IF r.state # usc.state THEN Append(umarks, lines[usc.c].kw)
                        ELSE umarks
           /\ IF r.err # "none"
              THEN /\ upc' = "raised"
                   /\ uerr' = r.err
                   /\ usc' = r
                   /\ UNCHANGED uout
              ELSE IF r.state = 4
              THEN IF y.err # "none"
                   THEN /\ upc' = "raised"
                        /\ uerr' = y.err
                        /\ usc' = y
                        /\ UNCHANGED uout
                   ELSE /\ upc' = "yielded"
                        /\ uout' = Append(uout, y.snap)
                        /\ usc' = y
                        /\ UNCHANGED uerr
              ELSE /\ usc' = [r EXCEPT !.c = r.q, !.q = r.q + 1]
                   /\ UNCHANGED <<upc, uout, uerr>>
    /\ UNCHANGED <<usnaps, uorig, uschema, ufile, uit>>
    /\ UNCHANGED <<recVars, labelVars, dataVars, boxVars, heapVars, genVars>>

\* next() after a yield: snap, N, box and step are deleted, state = 0 and
\* the next line is read
ScanResumeAct ==
    /\ upc = "yielded"
    /\ upc' = "loop"
    /\ usc' = ScanStart(usc.q, usc.q + 1, uobj.schema)
    /\ umarks' = <<>>
    /\ UNCHANGED <<usnaps, uorig, uschema, ufile, uobj, uit, uout, uerr>>
    /\ UNCHANGED <<recVars, labelVars, dataVars, boxVars, heapVars, genVars>>

\* the line read is empty: the loop ends and the generator returns
ScanStopAct ==
    /\ upc = "loop"
    /\ usc.c > Len(ufile.lines)
    /\ upc' = "done"
    /\ UNCHANGED <<usnaps, uorig, uschema, ufile, uobj, uit, uout, uerr>>
    /\ UNCHANGED <<recVars, labelVars, dataVars, boxVars, scanVars, heapVars, genVars>>

ScanNext ==
    \/ ScanOpenAct
    \/ ScanLoopAct
    \/ ScanResumeAct
    \/ ScanStopAct

DumpNextStep ==
    \/ DumpCreateAct
    \/ DumpSortOffAct
    \/ DumpOpenAct
    \/ DumpIterAct
    \/ DumpNextAct

\* ------------------------------------------- the topology of a Snapshot
\* an object a caller assigns to snapshot.bonds, .angles, ...: its class and
\* its record; None is of class NoneType
Instance(cls, N) == [cls |-> cls, obj |-> Topology(N, NumMembers(cls), NoneInt)]

NoneInstance == [cls |-> "NoneType", obj |-> NoneTopo]

\* a setter that stores whatever it is given
SnapshotSetTopologyAny(s, field, value) ==
    [obj |-> [s EXCEPT ![field] = value.obj], err |-> "none"]

\* the setters of bonds, angles, dihedrals and impropers
SnapshotSetTopology(s, field, value) ==
    IF value # NoneInstance
    THEN IF value.cls # KindOf(field) THEN [obj |-> s, err |-> "TypeError"]
         ELSE [obj |-> [s EXCEPT ![field] = value.obj], err |-> "none"]
    ELSE [obj |-> [s EXCEPT ![field] = NoneTopo], err |-> "none"]

\* snapshot.<field> = value
SnapSetTopologyAct(field, value) ==
    /\ target = "Snapshot" /\ nops < MaxOps
    /\ LET r == SnapshotSetTopology(snap, field, value)
       IN  /\ snap' = r.obj
           /\ raised' = r.err
    /\ lastOp' = [NoOp EXCEPT !.op = "assign", !.attr = field, !.value = value]
    /\ hist' = <<>>
    /\ nops' = nops + 1
    /\ UNCHANGED <<target, topo, notRecVars>>

\* the objects a caller assigns: None, and empty and populated records of
\* every class
Instances == {NoneInstance} \cup {Instance(cls, N) : cls \in TopologyKinds, N \in 0..1}

\* a new Snapshot, for the assignments of topology records
RecAssignInit ==
    /\ target = "Snapshot"
    /\ \E N \in 0..MaxN : snap = Snapshot(N, UnitBox, NoneInt, NoneInt)
    /\ topo = NoneTopo
    /\ raised = "none"
    /\ lastOp = NoOp
    /\ hist = <<>>
    /\ nops = 0

RecAssignNext ==
    \E field \in {"bonds", "angles", "dihedrals", "impropers"}, value \in Instances :
        SnapSetTopologyAct(field, value)

\* ------------------------------------------------------------------ Box
\* lengths and tilt factors of a Box through the conventions are integers in
\* units of 1 / BoxScale; a product or quotient of two of them is rounded to
\* the nearest unit, as a float operation rounds to the nearest float
BoxScale == 10^3

\* a product that drops its second factor
FMulLeft(a, b) == a

FMul(a, b) == LET p == a * b IN (2 * p + BoxScale) \div (2 * BoxScale)

FDiv(a, b) == (2 * a * BoxScale + b) \div (2 * b)

\* Box.to_hoomd_convention: the lengths, then xy / Ly, xz / Lz, yz / Lz
BoxToHoomd(box) ==
    LET L == [i \in 1..3 |-> box.high[i] - box.low[i]]
    IN  L \o (IF box.tilt # NoneTilt
              THEN <<FDiv(box.tilt[1], L[2]), FDiv(box.tilt[2], L[3]),
                     FDiv(box.tilt[3], L[3])>>
              ELSE <<0, 0, 0>>)

\* Box.from_matrix for the upper triangular matrix of lengths L and tilt
BoxFromMatrix(low, L, tilt, force_triclinic) ==
    Box(low, [i \in 1..3 |-> low[i] + L[i]],
        IF ~force_triclinic /\ tilt = <<0, 0, 0>> THEN NoneTilt ELSE tilt)

\* low=None
NoLow == <<>>

\* Box.from_hoomd_convention: the box, the error, and box_data as the call
\* leaves it (L and tilt are views of box_data and are scaled in place)
BoxFromHoomd(box_data, low, force_triclinic, dimensions) ==
    LET dims == IF dimensions = NoneInt THEN (IF box_data[3] # 0 THEN 3 ELSE 2)
                ELSE dimensions
        L == IF dims = 2 /\ box_data[3] = 0 THEN [box_data EXCEPT ![3] = BoxScale]
             ELSE box_data
        tilt == IF dims = 3
                THEN <<FMul(box_data[4], L[2]), FMul(box_data[5], L[3]),
                       FMul(box_data[6], L[3])>>
                ELSE <<FMul(box_data[4], L[2]), 0, 0>>
        sums == <<L[1] + tilt[1] + tilt[2], L[2] + tilt[3], L[3]>>
        origin == IF low = NoLow THEN [i \in 1..3 |-> -(sums[i] \div 2)] ELSE low
    IN  IF dims \notin {2, 3}
        THEN [err |-> "ValueError", box |-> UnitBox, box_data |-> box_data]
        ELSE [err |-> "none",
              box |-> BoxFromMatrix(origin, SubSeq(L, 1, 3), tilt, force_triclinic),
              box_data |-> SubSeq(L, 1, 3) \o tilt]

\* the boxes a caller converts: orthorhombic and triclinic, with edges of
\* positive length
BoxLengths == {BoxScale, 3 * BoxScale}

BoxTilts ==
    {NoneTilt, <<0, 0, 0>>, <<BoxScale, 0, 0>>, <<BoxScale, -2 * BoxScale, BoxScale \div 2>>,
     <<0, BoxScale \div 4, 0>>}

BoxInputs ==
    {Box(low, [i \in 1..3 |-> low[i] + L[i]], tilt) :
        low \in {<<0, 0, 0>>, <<-5 * BoxScale, -BoxScale, BoxScale \div 2>>},
        L \in [1..3 -> BoxLengths], tilt \in BoxTilts}

BoxIdle ==
    /\ bpc = "none"
    /\ bbox = UnitBox
    /\ bdata = <<>>
    /\ bargs = [low |-> NoLow, force_triclinic |-> FALSE, dimensions |-> NoneInt]
    /\ bout = UnitBox
    /\ berr = "none"

BoxInit ==
    /\ bpc = "new"
    /\ bbox \in BoxInputs
    /\ bdata = <<>>
    /\ bargs = [low |-> NoLow, force_triclinic |-> FALSE, dimensions |-> NoneInt]
    /\ bout = UnitBox
    /\ berr = "none"

\* hoomd_box = box.to_hoomd_convention()
BoxToHoomdAct ==
    /\ bpc = "new"
    /\ bdata' = BoxToHoomd(bbox)
    /\ bpc' = "converted"
    /\ UNCHANGED <<bbox, bargs, bout, berr, notBoxVars>>

\* hoomd_box[2] = 0: the caller makes the array two-dimensional
BoxFlattenAct ==
    /\ bpc = "converted"
    /\ bdata' = [bdata EXCEPT ![3] = 0]
    /\ bpc' = "flat"
    /\ UNCHANGED <<bbox, bargs, bout, berr, notBoxVars>>

\* Box.from_hoomd_convention(hoomd_box, low, force_triclinic, dimensions)
BoxFromHoomdAct(low, force_triclinic, dimensions) ==
    /\ bpc \in {"converted", "flat"}
    /\ LET r == BoxFromHoomd(bdata, low, force_triclinic, dimensions)
       IN  /\ bout' = r.box
           /\ berr' = r.err
           /\ bdata' = r.box_data
    /\ bargs' = [low |-> low, force_triclinic |-> force_triclinic, dimensions |-> dimensions]
    /\ bpc' = IF bpc = "converted" THEN "back" ELSE "back2d"
    /\ UNCHANGED <<bbox, notBoxVars>>

BoxNext ==
    \/ BoxToHoomdAct
    \/ BoxFlattenAct
    \/ \E low \in {NoLow, bbox.low}, force_triclinic \in BOOLEAN,
          dimensions \in {NoneInt, 2, 3, 4} :
          BoxFromHoomdAct(low, force_triclinic, dimensions)

\* ------------------------------------------ generators and file handles
\* handle k is the one generator k opens; the handles after MaxIters are
\* those of the calls of read, create and len, in the order they are opened
MaxHandles == MaxIters + MaxCallHandles

NoOper == [kind |-> "none", fds |-> {}, last |-> "none"]

GenIdle ==
    /\ gens = <<>>
    /\ fds = [h \in 1..MaxHandles |-> "none"]
    /\ oper = NoOper

\* with open(...) as f: the handles are open inside the block
WithEnter(f, hs) == [h \in DOMAIN f |-> IF h \in hs THEN "open" ELSE f[h]]

\* a with block that forgets its handles when it is left
WithExitLeak(f, hs) == f

\* leaving the with block, by its end, a return, an exception or the
\* GeneratorExit raised at a yield, closes its handles
WithExit(f, hs) == [h \in DOMAIN f |-> IF h \in hs THEN "closed" ELSE f[h]]

\* it = iter(f): a generator that has not run yet; no file is open for it
GenIterAct ==
    /\ upc = "created"
    /\ oper.kind = "none"
    /\ Len(gens) < MaxIters
    /\ gens' = Append(gens, [pc |-> "fresh", c |-> 1, q |-> 2, out |-> <<>>,
                             err |-> "none", fd |-> 0])
    /\ UNCHANGED <<fds, oper, dumpVars>>
    /\ UNCHANGED <<recVars, labelVars, dataVars, boxVars, scanVars, heapVars>>

\* next(it) on generator k: the first call enters the with block and opens
\* the file; the call runs to the next yield, to the end of the file or to
\* an error, and the last two leave the with block
GenNextAct(k) ==
    /\ upc = "created"
    /\ oper.kind = "none"
    /\ k \in 1..Len(gens)
    /\ gens[k].pc \in {"fresh", "suspended"}
    /\ LET g == gens[k]
           opened == IF g.pc = "fresh" THEN WithEnter(fds, {k}) ELSE fds
           r == DumpNext(ufile.lines, g.c, g.q, uobj.schema, uobj.sort_ids, uobj.copy_from)
       IN  /\ uobj' = [uobj EXCEPT !.schema = r.schema]
           /\ CASE r.kind = "yield" ->
                     /\ gens' = [gens EXCEPT ![k] =
                                     [g EXCEPT !.pc = "suspended", !.c = r.q, !.q = r.q + 1,
                                               !.out = Append(g.out, r.snap), !.fd = k]]
                     /\ fds' = opened
                [] r.kind = "stop" ->
                     /\ gens' = [gens EXCEPT ![k] = [g EXCEPT !.pc = "done", !.fd = k]]
                     /\ fds' = WithExit(opened, {k})
                [] OTHER ->
                     /\ gens' = [gens EXCEPT ![k] =
                                     [g EXCEPT !.pc = "raised", !.err = r.err, !.fd = k]]
                     /\ fds' = WithExit(opened, {k})
    /\ UNCHANGED <<oper, upc, usnaps, uorig, uschema, ufile, uit, uout, uerr>>
    /\ UNCHANGED <<recVars, labelVars, dataVars, boxVars, scanVars, heapVars>>

\* the consumer stops: generator k is closed, or finalised once it is
\* dropped; GeneratorExit is raised at the yield and the with block is left
GenCloseAct(k) ==
    /\ k \in 1..Len(gens)
    /\ gens[k].pc \in {"fresh", "suspended"}
    /\ gens' = [gens EXCEPT ![k].pc = "closed"]
    /\ fds' = IF gens[k].fd # 0 THEN WithExit(fds, {gens[k].fd}) ELSE fds
    /\ UNCHANGED <<oper, dumpVars>>
    /\ UNCHANGED <<recVars, labelVars, dataVars, boxVars, scanVars, heapVars>>

GenNext ==
    \/ GenIterAct
    \/ \E k \in 1..MaxIters : GenNextAct(k)
    \/ \E k \in 1..MaxIters : GenCloseAct(k)

\* the calls that open a file for their whole body
CallKinds == {"DataFile.read", "DataFile.create", "DumpFile.create", "len"}

\* the n handles after MaxIters that have not been opened yet
FreeHandles(n) ==
    LET free == {h \in (MaxIters + 1)..MaxHandles : fds[h] = "none"}
    IN  {h \in free : Cardinality({m \in free : m < h}) < n}

\* a call enters its with block; len opens the file only when the frames
\* of the object have not been found yet
CallOpenAct(kind) ==
    /\ upc = "created"
    /\ oper.kind = "none"
    /\ kind = "len" => uobj.frames = NoFrames
    /\ Cardinality(FreeHandles(1)) = 1
    /\ fds' = WithEnter(fds, FreeHandles(1))
    /\ oper' = [kind |-> kind, fds |-> FreeHandles(1), last |-> "none"]
    /\ UNCHANGED <<gens, dumpVars>>
    /\ UNCHANGED <<recVars, labelVars, dataVars, boxVars, scanVars, heapVars>>

\* the body of the with block ends, by running to its end or by raising;
\* len keeps the frames it found; DumpFile.create of a compressed file goes
\* on to the block that copies the file, which opens a source and a
\* destination
CallExitAct(outcome, compress) ==
    /\ oper.kind # "none"
    /\ compress => (oper.kind = "DumpFile.create" /\ outcome = "return"
                    /\ Cardinality(FreeHandles(2)) = 2)
    /\ LET closed == WithExit(fds, oper.fds)
       IN  IF compress
           THEN /\ fds' = WithEnter(closed, FreeHandles(2))
                /\ oper' = [kind |-> "compress", fds |-> FreeHandles(2), last |-> "none"]
           ELSE /\ fds' = closed
                /\ oper' = [NoOper EXCEPT !.last = outcome]
    /\ uobj' = IF oper.kind = "len" /\ outcome = "return"
               THEN [uobj EXCEPT !.frames = FindFrames(ufile.lines)] ELSE uobj
    /\ UNCHANGED <<gens, upc, usnaps, uorig, uschema, ufile, uit, uout, uerr>>
    /\ UNCHANGED <<recVars, labelVars, dataVars, boxVars, scanVars, heapVars>>

HandleNext ==
    \/ GenNext
    \/ \E kind \in CallKinds : CallOpenAct(kind)
    \/ \E outcome \in {"return", "raise"} : \E compress \in BOOLEAN :
           CallExitAct(outcome, compress)

\* --------------------------------------------------- objects by identity
\* Box.cast of a Box object: the object itself
BoxCast(ref) == ref

HeapIdle ==
    /\ hboxes = <<>>
    /\ htopos = <<>>
    /\ hcaller = {}
    /\ hown = <<>>
    /\ hcopy = 0
    /\ hlast = [op |-> "none", who |-> 0]

\* the caller holds one Box object
HeapInit ==
    /\ hboxes = <<UnitBox>>
    /\ htopos = <<>>
    /\ hcaller = {1}
    /\ hown = <<>>
    /\ hcopy = 0
    /\ hlast = [op |-> "none", who |-> 0]

\* the Box and the Bonds a Snapshot shows
HeapView(i) ==
    [box |-> hboxes[hown[i].box],
     bonds |-> IF hown[i].bonds = 0 THEN NoneTopo ELSE htopos[hown[i].bonds]]

\* Snapshot(N, box) with a Box object the caller holds: self._box is what
\* Box.cast returns
HeapSnapshotAct(ref) ==
    /\ Len(hown) < MaxObjects
    /\ ref \in hcaller
    /\ hown' = Append(hown, [box |-> BoxCast(ref), bonds |-> 0])
    /\ hlast' = [op |-> "new", who |-> Len(hown) + 1]
    /\ UNCHANGED <<hboxes, htopos, hcaller, hcopy>>
    /\ UNCHANGED <<recVars, labelVars, dataVars, dumpVars, boxVars, scanVars, genVars>>

\* Snapshot(N, [0, 0, 0, 1, 1, 1]): Box.cast constructs a Box from the array
HeapSnapshotArrayAct ==
    /\ Len(hown) < MaxObjects
    /\ hboxes' = Append(hboxes, UnitBox)
    /\ hown' = Append(hown, [box |-> Len(hboxes) + 1, bonds |-> 0])
    /\ hlast' = [op |-> "new", who |-> Len(hown) + 1]
    /\ UNCHANGED <<htopos, hcaller, hcopy>>
    /\ UNCHANGED <<recVars, labelVars, dataVars, dumpVars, boxVars, scanVars, genVars>>

\* snapshot.bonds = Bonds(...): the setter stores the object it is given
HeapSetBondsAct(i) ==
    /\ i \in 1..Len(hown)
    /\ hown[i].bonds = 0
    /\ htopos' = Append(htopos, TopoValue("Bonds"))
    /\ hown' = [hown EXCEPT ![i].bonds = Len(htopos) + 1]
    /\ hlast' = [op |-> "assign", who |-> i]
    /\ UNCHANGED <<hboxes, hcaller, hcopy>>
    /\ UNCHANGED <<recVars, labelVars, dataVars, dumpVars, boxVars, scanVars, genVars>>

\* f.copy_from = snapshot
HeapCopyFromAct(i) ==
    /\ i \in 1..Len(hown)
    /\ hcopy = 0
    /\ hcopy' = i
    /\ hlast' = [op |-> "copy_from", who |-> i]
    /\ UNCHANGED <<hboxes, htopos, hcaller, hown>>
    /\ UNCHANGED <<recVars, labelVars, dataVars, dumpVars, boxVars, scanVars, genVars>>

\* one frame of an iteration with copy_from: the frame gets a Box of its
\* own, constructed from the bounds read, and snap.bonds = copy_from.bonds
\* when the reference has bonds
HeapYieldAct ==
    /\ Len(hown) < MaxObjects
    /\ hcopy # 0
    /\ hboxes' = Append(hboxes, UnitBox)
    /\ hown' = Append(hown,
                      [box |-> Len(hboxes) + 1,
                       bonds |-> IF SnapshotHasTopology(HeapView(hcopy), "bonds")
                                 THEN hown[hcopy].bonds ELSE 0])
    /\ hlast' = [op |-> "yield", who |-> Len(hown) + 1]
    /\ UNCHANGED <<htopos, hcaller, hcopy>>
    /\ UNCHANGED <<recVars, labelVars, dataVars, dumpVars, boxVars, scanVars, genVars>>

\* snapshot.box.low = value, through Snapshot i
HeapSetLowAct(i, value) ==
    /\ i \in 1..Len(hown)
    /\ hboxes[hown[i].box].low # value
    /\ hboxes' = [hboxes EXCEPT ![hown[i].box].low = value]
    /\ hlast' = [op |-> "set", who |-> i]
    /\ UNCHANGED <<htopos, hcaller, hown, hcopy>>
    /\ UNCHANGED <<recVars, labelVars, dataVars, dumpVars, boxVars, scanVars, genVars>>

\* snapshot.bonds.typeid[0] = value, through Snapshot i
HeapSetBondTypeAct(i, value) ==
    /\ i \in 1..Len(hown)
    /\ hown[i].bonds # 0
    /\ htopos[hown[i].bonds].typeid.data[1] # value
    /\ htopos' = [htopos EXCEPT ![hown[i].bonds].typeid =
                      SetRow(htopos[hown[i].bonds].typeid, 0, <<value>>)]
    /\ hlast' = [op |-> "set", who |-> i]
    /\ UNCHANGED <<hboxes, hcaller, hown, hcopy>>
    /\ UNCHANGED <<recVars, labelVars, dataVars, dumpVars, boxVars, scanVars, genVars>>

HeapNext ==
    \/ \E ref \in hcaller : HeapSnapshotAct(ref)
    \/ HeapSnapshotArrayAct
    \/ \E i \in 1..MaxObjects : HeapSetBondsAct(i)
    \/ \E i \in 1..MaxObjects : HeapCopyFromAct(i)
    \/ HeapYieldAct
    \/ \E i \in 1..MaxObjects, x \in {0, One} : HeapSetLowAct(i, <<x, 0, 0>>)
    \/ \E i \in 1..MaxObjects, t \in 1..MaxTypes : HeapSetBondTypeAct(i, t)

\* the initial states: one kind of object is under test, the others are idle
InitDump == RecIdle /\ LabelIdle /\ DataIdle /\ DumpInit /\ BoxIdle /\ ScanIdle /\ HeapIdle /\ GenIdle

InitData == RecIdle /\ LabelIdle /\ DataInit /\ DumpIdle /\ BoxIdle /\ ScanIdle /\ HeapIdle /\ GenIdle

InitRec == RecInit /\ LabelIdle /\ DataIdle /\ DumpIdle /\ BoxIdle /\ ScanIdle /\ HeapIdle /\ GenIdle

InitLabel == RecIdle /\ LabelIdle /\ DataIdle /\ DumpIdle /\ BoxIdle /\ ScanIdle /\ HeapIdle /\ GenIdle

SpecDump == InitDump /\ [][DumpNextStep]_vars

\* dump files read with a reference to copy from: snapshots with a step and
\* an orthorhombic box, written under the schemas without gaps
DumpCopyInit ==
    /\ DumpInit
    /\ \A k \in 1..Len(usnaps) : usnaps[k].step # NoneInt /\ usnaps[k].box.tilt = NoneTilt
    /\ \A a \in SchemaKeys(uschema) : \A k \in 1..Len(uschema[a]) :
          \A c \in 0..(uschema[a][k] - 1) : c \in {e.col : e \in SchemaEntries(uschema)}

InitCopy == RecIdle /\ LabelIdle /\ DataIdle /\ DumpCopyInit /\ BoxIdle /\ ScanIdle /\ HeapIdle /\ GenIdle

CopyNext ==
    \/ DumpCreateAct
    \/ DumpSortOffAct
    \/ DumpOpenAct
    \/ \E ref \in DumpRefs : DumpCopyFromAct(ref)
    \/ DumpIterAct
    \/ DumpNextAct

SpecCopy == InitCopy /\ [][CopyNext]_vars

InitForeign == RecIdle /\ LabelIdle /\ DataIdle /\ DumpForeignInit /\ BoxIdle /\ ScanIdle /\ HeapIdle /\ GenIdle

ForeignNext ==
    \/ DumpIterAct
    \/ DumpNextAct
    \/ DumpLenAct

SpecForeign == InitForeign /\ [][ForeignNext]_vars

InitTyped == RecIdle /\ LabelIdle /\ DataTypedInit /\ DumpIdle /\ BoxIdle /\ ScanIdle /\ HeapIdle /\ GenIdle

SpecTyped == InitTyped /\ [][DataReadAct]_vars

InitStyle == RecIdle /\ LabelIdle /\ DataStyleInit /\ DumpIdle /\ BoxIdle /\ ScanIdle /\ HeapIdle /\ GenIdle

StyleNext == \E atom_style \in AtomStyles \cup {NoStyle} : DataCreateAct(atom_style)

SpecStyle == InitStyle /\ [][StyleNext]_vars

InitAssign == RecAssignInit /\ LabelIdle /\ DataIdle /\ DumpIdle /\ BoxIdle /\ ScanIdle /\ HeapIdle /\ GenIdle

SpecAssign == InitAssign /\ [][RecAssignNext]_vars

LenNext ==
    \/ DumpNextStep
    \/ DumpLenAct

SpecLen == InitDump /\ [][LenNext]_vars

InitBox == RecIdle /\ LabelIdle /\ DataIdle /\ DumpIdle /\ BoxInit /\ ScanIdle /\ HeapIdle /\ GenIdle

SpecBox == InitBox /\ [][BoxNext]_vars

\* dump files that create wrote and that were cut short after any number of
\* lines before they are read
DumpTruncInit ==
    /\ upc = "created"
    /\ uorig \in {snaps \in DumpInputs :
                     \A k \in 1..Len(snaps) :
                        snaps[k].step # NoneInt /\ SnapshotHas(snaps[k], "position")}
    /\ uschema \in DumpSchemas
    /\ usnaps = DumpCreate(uschema, uorig).snapshots
    /\ ufile \in {File(SubSeq(DumpCreate(uschema, uorig).lines, 1, n)) :
                     n \in 0..Len(DumpCreate(uschema, uorig).lines)}
    /\ uobj = DumpFile(uschema, TRUE)
    /\ uit = NoIter
    /\ uout = <<>>
    /\ uerr = "none"

InitTrunc == RecIdle /\ LabelIdle /\ DataIdle /\ DumpTruncInit /\ BoxIdle /\ ScanIdle /\ HeapIdle /\ GenIdle

TruncNext ==
    \/ DumpIterAct
    \/ DumpNextAct

SpecTrunc == InitTrunc /\ [][TruncNext]_vars

InitSection == RecIdle /\ LabelIdle /\ DataSectionInit /\ DumpIdle /\ BoxIdle /\ ScanIdle /\ HeapIdle /\ GenIdle

SpecSection == InitSection /\ [][DataReadAct]_vars

InitHeap == RecIdle /\ LabelIdle /\ DataIdle /\ DumpIdle /\ BoxIdle /\ ScanIdle /\ HeapInit /\ GenIdle

SpecHeap == InitHeap /\ [][HeapNext]_vars

InitGen ==
    /\ RecIdle /\ LabelIdle /\ DataIdle /\ DumpForeignInit /\ BoxIdle /\ ScanIdle
    /\ HeapIdle /\ GenIdle

SpecGen == InitGen /\ [][GenNext]_vars

\* f = DumpFile(filename) on a file of two frames whose headers are full
\* or lack columns of the position
HandleHeaders == {<<"id", "type", "x", "y", "z">>, <<"id", "type", "x">>}

DumpHandleInit ==
    /\ upc = "created"
    /\ usnaps = <<>>
    /\ uorig = <<>>
    /\ uschema = EmptySchema
    /\ ufile \in {File(ForeignLines(headers, 1)) : headers \in [1..MaxFrames -> HandleHeaders]}
    /\ uobj = DumpFile(NoSchema, FALSE)
    /\ uit = NoIter
    /\ uout = <<>>
    /\ uerr = "none"

InitHandle ==
    /\ RecIdle /\ LabelIdle /\ DataIdle /\ DumpHandleInit /\ BoxIdle /\ ScanIdle
    /\ HeapIdle /\ GenIdle

\* a with body is a loop over the lines of a file or over the snapshots
\* given, so it ends; a generator the consumer no longer advances is closed
\* or finalised
HandleFair ==
    /\ WF_vars(\E outcome \in {"return", "raise"} : \E compress \in BOOLEAN :
                   CallExitAct(outcome, compress))
    /\ \A k \in 1..MaxIters : WF_vars(GenCloseAct(k))

SpecHandle == InitHandle /\ [][HandleNext]_vars /\ HandleFair

InitScan == RecIdle /\ LabelIdle /\ DataIdle /\ DumpScanInit /\ BoxIdle /\ ScanIdle /\ HeapIdle /\ GenIdle

SpecScan == InitScan /\ [][ScanNext]_vars

\* the snapshots whose defaults create may have to materialise: N >= 1
\* particles with each of id, typeid, position and mass set or unset, and
\* no topology or one record of one kind with any of its attributes unset
DefaultInputs ==
    {[Snapshot(N, Box(<<0, 0, 0>>, <<One, One, 2 * One>>, NoneTilt), NoneInt, NoneInt)
        EXCEPT !.id = IF "id" \in set THEN AttrValue(N, "id", "mixed", "unset") ELSE NoneArr,
               !.typeid = IF "typeid" \in set THEN TypeidValue(N, "mixed") ELSE NoneArr,
               !.position = IF "position" \in set
                            THEN AttrValue(N, "position", "mixed", "unset") ELSE NoneArr,
               !.mass = IF "mass" \in set
                        THEN MassValue(N, "bytype", TypeidValue(N, "mixed")) ELSE NoneArr,
               ![f] = IF topology
                      THEN [a \in DOMAIN TopoValue(KindOf(f)) |->
                               IF a \in unset THEN NoneArr ELSE TopoValue(KindOf(f))[a]]
                      ELSE NoneTopo] :
        N \in 1..MaxAtoms, set \in SUBSET {"id", "typeid", "position", "mass"},
        f \in Range(TopoFields), topology \in BOOLEAN, unset \in SUBSET Range(TopologyAttrs)}

DataDefaultsInit ==
    /\ dstyle = NoStyle
    /\ dcerr = "none"
    /\ drerr = "none"
    /\ dout = NoSnapshot
    /\ dpc = "new"
    /\ dsnap \in DefaultInputs
    /\ dorig = dsnap
    /\ dfile = NoFile
    /\ dobj = NoStyle

InitDefaults ==
    /\ RecIdle /\ LabelIdle /\ DataDefaultsInit /\ DumpIdle /\ BoxIdle /\ ScanIdle
    /\ HeapIdle /\ GenIdle

SpecDefaults == InitDefaults /\ [][DataNext]_vars

SpecData == InitData /\ [][DataNext]_vars

SpecRec == InitRec /\ [][RecNext]_vars

SpecLabel == InitLabel /\ [][LabelNext]_vars

\* C9: after any sequence of insertions, overwrites and deletions the inverse
\* index holds exactly the (label, typeid) pairs of the forward map, and the
\* deletion of a present typeid does not fail.
C9_InverseConsistent ==
    /\ \A key \in 1..MaxTypes, value \in Labels :
          (value \in DOMAIN linv /\ linv[value] = key)
              <=> (key \in DOMAIN lmap /\ lmap[key] = value)
    /\ (llast.op = "del" /\ llast.present) => lraised = "none"

\* ---------------------------------------- claims on Snapshot and Topology
Obj == IF target = "Snapshot" THEN snap ELSE topo

ObjAttrs == IF target = "Snapshot" THEN Range(SnapshotAttrs) ELSE Range(TopologyAttrs)

\* the shape the data model documents for attribute a of the object
DocShape(o, a) ==
    IF target = "Snapshot"
    THEN (IF a \in {"position", "velocity", "image"} THEN <<o.N, 3>> ELSE <<o.N>>)
    ELSE (IF a = "members" THEN <<o.N, NumMembers(target)>> ELSE <<o.N>>)

\* the documented default of entry k of a Snapshot attribute
DocDefault(a, k) ==
    CASE a = "id" -> k
      [] a = "typeid" -> 1
      [] a = "mass" -> One
      [] OTHER -> 0

ShapesOK(o) == \A a \in ObjAttrs : o[a] # NoneArr => o[a].dims = DocShape(o, a)

\* C3 as stated: on a fresh Snapshot the getter of an unset attribute returns
\* the documented default and has_<attr>() stays false (reading the getter
\* does not make it true).
C3_GetterLeavesUnset ==
    [][(target = "Snapshot" /\ lastOp'.op = "get" /\ ~SnapshotHas(snap, lastOp'.attr))
         => ~SnapshotHas(snap', lastOp'.attr)]_vars

\* C3 amended: a fresh Snapshot has every per-particle attribute unset; the
\* getter of an unset attribute returns (and stores) an array of shape (N, ...)
\* filled with the documented default, after which has_<attr>() is true; and
\* has_<attr>() only becomes true by a getter read or a setter call of <attr>.
C3_LazyDefault ==
    /\ [](nops = 0 => \A a \in Range(SnapshotAttrs) : ~SnapshotHas(snap, a))
    /\ [][target = "Snapshot" =>
           /\ (lastOp'.op = "get" /\ ~SnapshotHas(snap, lastOp'.attr)) =>
                 LET r == snap'[lastOp'.attr]
                 IN  /\ r.dims = DocShape(snap, lastOp'.attr)
                     /\ Len(r.data) = Prod(r.dims)
                     /\ \A k \in 1..Len(r.data) :
                           r.data[k] = DocDefault(lastOp'.attr, k)
           /\ \A a \in Range(SnapshotAttrs) :
                 (~SnapshotHas(snap, a) /\ SnapshotHas(snap', a)) =>
                     (lastOp'.attr = a /\ lastOp'.op \in {"get", "set"})]_vars

\* a getter read of an unset attribute of a Snapshot with particles has happened
C3_Witness ==
    /\ target = "Snapshot" /\ snap.N = MaxN /\ nops = 1
    /\ lastOp.op = "get" /\ lastOp.attr = "mass"
    /\ SnapshotHas(snap, "mass")

\* C4: every populated array of a Snapshot or Topology record keeps its
\* documented shape across every public operation. Stated for the steps whose
\* reorder calls have check_order true; the claim covers check_order false as
\* well, where reorder applies any index list as given.
C4_ShapesKept ==
    [][(ShapesOK(Obj) /\ (lastOp'.op = "reorder" => lastOp'.check)) => ShapesOK(Obj')]_vars

\* the value assigned by the last setter call is wrongly shaped (after
\* numpy.array(value, ndmin=...) has made it an array of the attribute's rank)
WrongShape(o, op) ==
    /\ op.op = "set" /\ op.value # NoneArr
    /\ PadDims(op.value.dims, Len(DocShape(o, op.attr))) # DocShape(o, op.attr)

\* C5: a setter call with a wrongly shaped value raises a type error and
\* leaves the object (whether the attribute was populated, and its values)
\* as it was, for every Snapshot attribute and every Topology attribute.
C5_BadSetterKeepsState ==
    [][WrongShape(Obj, lastOp') => (raised' = "TypeError" /\ Obj' = Obj)]_vars

\* a wrongly shaped value was assigned to an attribute holding assigned values
C5_Witness ==
    /\ WrongShape(Obj, lastOp) /\ raised = "TypeError" /\ Obj.N >= 1
    /\ Obj[lastOp.attr] = Ramp(DocShape(Obj, lastOp.attr), 10)

LastReorder == hist[Len(hist)]

\* C6: for a permutation order of 0..N-1, reorder(order) on a Snapshot or
\* Topology record whose arrays have N rows puts the entry that was at position
\* order[j] into position j of every populated array and leaves unpopulated
\* attributes unpopulated; reorder(order) then reorder(inverse(order)) restores
\* every array.
C6_Reorder ==
    /\ (hist # <<>> /\ IsPermutation(LastReorder.order, Obj.N)
           /\ ShapesOK(LastReorder.pre)) =>
          \A a \in ObjAttrs :
             IF LastReorder.pre[a] = NoneArr THEN Obj[a] = NoneArr
             ELSE /\ Obj[a].dims = LastReorder.pre[a].dims
                  /\ \A j \in 0..(Obj.N - 1) :
                        Row(Obj[a], j) = Row(LastReorder.pre[a], LastReorder.order[j + 1])
    /\ (Len(hist) = 2 /\ IsPermutation(hist[1].order, Obj.N) /\ ShapesOK(hist[1].pre)
           /\ hist[2].order = Inverse(hist[1].order)) =>
          Obj = hist[1].pre

\* a populated array went through reorder(order), reorder(inverse(order)) for
\* an order that is not its own inverse
C6_Witness ==
    /\ Len(hist) = 2 /\ IsPermutation(hist[1].order, Obj.N)
    /\ hist[2].order = Inverse(hist[1].order) /\ hist[2].order # hist[1].order
    /\ \E a \in ObjAttrs : Obj[a] = Ramp(DocShape(Obj, a), 10)

\* C7: with check_order true, reorder raises for every order that is not a
\* permutation of 0..N-1, for every N, and changes nothing when it raises.
C7_CheckedReorderRaises ==
    [][(lastOp'.op = "reorder" /\ lastOp'.check) =>
          /\ ~IsPermutation(lastOp'.order, Obj.N) => raised' # "none"
          /\ raised' # "none" => Obj' = Obj]_vars


\* ----------------------------------------------------- claims on DataFile
\* the absolute tolerance of a comparison of floats: 5 * 10^-6
Tol == 5 * 10^3

Close(a, b) ==
    /\ a.dims = b.dims
    /\ \A k \in 1..Len(a.data) :
          a.data[k] - b.data[k] <= Tol /\ b.data[k] - a.data[k] <= Tol

FloatAttrs == {"position", "velocity", "charge", "mass"}

\* a snapshot LAMMPS accepts: positive type ids, different positive particle
\* ids, one positive mass per type
ValidSnapshot(s) ==
    LET typeid == SnapshotGet(s, "typeid").typeid.data
    IN  /\ \A i \in 1..s.N : typeid[i] >= 1
        /\ SnapshotHas(s, "id") =>
              \A i, j \in 1..s.N : s.id.data[i] >= 1 /\ (s.id.data[i] = s.id.data[j] => i = j)
        /\ SnapshotHas(s, "mass") =>
              \A i, j \in 1..s.N :
                 /\ s.mass.data[i] > 0
                 /\ typeid[i] = typeid[j] => s.mass.data[i] = s.mass.data[j]

\* C1: for every valid Snapshot and each of the four atom styles, create
\* followed by read returns a Snapshot with the same N, the same box, the
\* same values (floats within tolerance) in every per-particle array that was
\* populated on the original, and the same ids.
C1_DataRoundTrip ==
    (dpc \in {"created", "read"} /\ dstyle \in AtomStyles /\ ValidSnapshot(dorig)) =>
        /\ dcerr = "none"
        /\ dpc = "read" =>
              /\ drerr = "none"
              /\ dout.N = dorig.N
              /\ dout.box = dorig.box
              /\ \A a \in Range(SnapshotAttrs) :
                    SnapshotHas(dorig, a) =>
                        IF a \in FloatAttrs
                        THEN Close(SnapshotGet(dout, a)[a], dorig[a])
                        ELSE SnapshotGet(dout, a)[a] = dorig[a]

\* the snapshot has a type in 1..num_types whose particles differ in mass or
\* whose mass is not positive
MassInvalid(s) ==
    LET typeid == SnapshotGet(s, "typeid").typeid.data
        nt == NumTypes(s)
    IN  /\ nt.err = "none"
        /\ \E i \in 1..s.N :
              /\ typeid[i] \in 1..nt.v
              /\ \/ s.mass.data[i] <= 0
                 \/ \E j \in 1..s.N : typeid[j] = typeid[i] /\ s.mass.data[j] # s.mass.data[i]

\* C8: when the snapshot has masses and a type in 1..num_types has particles
\* of different mass or a mass <= 0, create raises the validation error and
\* the destination file is neither created nor modified.
C8_MassValidation ==
    [][(dpc = "new" /\ dpc' = "created" /\ SnapshotHas(dsnap, "mass") /\ MassInvalid(dsnap))
          => (dcerr' = "ValueError" /\ dfile' = dfile)]_vars

HasSection(lines, section) == \E p \in 1..Len(lines) : lines[p].kw = section

\* the ids the n rows of a section list, in file order
ListedIds(lines, section, n) ==
    LET p == CHOOSE p \in 1..Len(lines) : lines[p].kw = section
    IN  [i \in 1..n |-> lines[p + 1 + i].toks[1].v]

Deviates(ids) == \E i \in 1..Len(ids) : ids[i] # i

\* C10: after read, has_id() is true iff some Atoms or Velocities row carries
\* an id that is not its 1-based row position, likewise for every topology
\* kind, and the id getters return the ids as the file lists them.
C10_IdsAsListed ==
    (dpc = "read" /\ drerr = "none") =>
        LET lines == dfile.lines
            listings == {ListedIds(lines, sec, dout.N) :
                            sec \in {sec \in {"Atoms", "Velocities"} : HasSection(lines, sec)}}
        IN  /\ SnapshotHas(dout, "id") <=> \E ids \in listings : Deviates(ids)
            /\ listings # {} => SnapshotGet(dout, "id").id.data \in listings
            /\ \A kind \in TopologyKinds :
                  LET f == FieldOfSection(kind)
                  IN  (HasSection(lines, kind) /\ dout[f] # NoneTopo) =>
                         LET ids == ListedIds(lines, kind, dout[f].N)
                         IN  /\ TopologyHas(dout[f], "id") <=> Deviates(ids)
                             /\ TopologyGet(dout[f], "id").id.data = ids


\* ----------------------------------------------------- claims on DumpFile
CloseSeq(a, b) ==
    /\ Len(a) = Len(b)
    /\ \A k \in 1..Len(a) : a[k] - b[k] <= Tol /\ b[k] - a[k] <= Tol

\* the frame read back for a snapshot written under the schema: the same N,
\* step and box, and every field of the schema in ascending-id order when
\* sort_ids is on and the snapshot carries ids other than 1..N, in the order
\* written otherwise
FrameMatches(out, orig, schema, sort_ids) ==
    LET sorted == /\ sort_ids
                  /\ "id" \in SchemaKeys(schema)
                  /\ SnapshotHas(orig, "id")
                  /\ orig.id # Arange(orig.N)
        order == IF sorted THEN Argsort(orig.id.data) ELSE Identity(orig.N)
    IN  /\ out.N = orig.N
        /\ out.step = orig.step
        /\ CloseSeq(out.box.low, orig.box.low)
        /\ CloseSeq(out.box.high, orig.box.high)
        /\ CloseSeq(out.box.tilt, orig.box.tilt)
        /\ \A a \in SchemaKeys(schema) :
              LET want == Take(SnapshotGet(orig, a)[a], order)
                  got == SnapshotGet(out, a)[a]
              IN  IF a \in FloatAttrs THEN Close(got, want) ELSE got = want

\* C2: iterating the DumpFile returned by create yields one Snapshot per
\* input snapshot, in input order, each matching its input; the iteration
\* raises nothing and ends after the last input.
C2_DumpRoundTrip ==
    (uobj.returned /\ upc \in {"iterating", "done", "raised"}) =>
        /\ upc # "raised"
        /\ Len(uout) <= Len(uorig)
        /\ upc = "done" => Len(uout) = Len(uorig)
        /\ \A k \in 1..Len(uout) :
              k <= Len(uorig) => FrameMatches(uout[k], uorig[k], uschema, uobj.sort_ids)

\* the place in the reference of the particle with the given id
RefIndex(ref, id_) ==
    LET ids == SnapshotGet(ref, "id").id.data
    IN  CHOOSE j \in 1..ref.N : ids[j] = id_

SameIds(a, b) ==
    Range(SnapshotGet(a, "id").id.data) = Range(SnapshotGet(b, "id").id.data)

CopiedAttrs == {"typeid", "molecule", "charge", "mass"}

\* a frame yielded under a reference with the same ids: what the file
\* carries is as read, what it lacks comes from the reference by id
FrameCopied(out, orig, ref, schema, sort_ids) ==
    /\ out.N = ref.N
    /\ SameIds(out, ref) =>
          /\ FrameMatches(out, orig, schema, sort_ids)
          /\ \A a \in CopiedAttrs \ SchemaKeys(schema) :
                IF SnapshotHas(ref, a)
                THEN /\ SnapshotHas(out, a)
                     /\ \A i \in 1..out.N :
                           out[a].data[i] =
                              ref[a].data[RefIndex(ref, SnapshotGet(out, "id").id.data[i])]
                ELSE ~SnapshotHas(out, a)

\* C11: with copy_from set, every frame yielded has the N of the reference,
\* keeps the fields the file carries as read and, when it has the ids of the
\* reference, takes each of typeid, molecule, charge and mass that the file
\* lacks and the reference has from the reference's particle with the same
\* id; a frame whose N differs from the reference's is never yielded: the
\* iteration raises at it.
C11_CopyFrom ==
    (uobj.copy_from # NoCopy /\ upc \in {"iterating", "done", "raised"}) =>
        /\ Len(uout) <= Len(uorig)
        /\ \A k \in 1..Len(uout) :
              FrameCopied(uout[k], uorig[k], uobj.copy_from, uschema, uobj.sort_ids)
        /\ upc = "done" => Len(uout) = Len(uorig)
        /\ upc = "raised" =>
              /\ Len(uout) < Len(uorig)
              /\ IF uorig[Len(uout) + 1].N # uobj.copy_from.N THEN uerr = "ValueError"
                 ELSE LET next == uorig[Len(uout) + 1]
                      IN  ~SameIds(IF "id" \in SchemaKeys(uschema) THEN next
                                   ELSE [next EXCEPT !.id = NoneArr],
                                   uobj.copy_from)

\* a frame of two particles whose ids are not 1..N in order took its type ids
\* from a reference that lists the same ids in another order
C11_Witness ==
    /\ uobj.copy_from # NoCopy
    /\ \E k \in 1..Len(uout) :
          /\ uout[k].N = 2
          /\ SnapshotHas(uout[k], "id")
          /\ SnapshotHas(uobj.copy_from, "id")
          /\ SameIds(uout[k], uobj.copy_from)
          /\ uout[k].id # uobj.copy_from.id
          /\ "typeid" \notin SchemaKeys(uschema)
          /\ SnapshotHas(uout[k], "typeid")

\* the field lists of the ITEM: ATOMS headers of a file, in file order
RECURSIVE HeadersOf(_)
HeadersOf(lines) ==
    IF lines = <<>> THEN <<>>
    ELSE (IF Head(lines).kw = "ITEM: ATOMS"
          THEN <<[j \in 1..Len(Head(lines).toks) |-> Head(lines).toks[j].k]>> ELSE <<>>)
         \o HeadersOf(Tail(lines))

\* a header that names one or two components of a vector attribute
PartialVector(fields) ==
    \E a \in VectorAttrs :
        Cardinality({i \in 0..2 : LammpsField(a, i) \in Range(fields)}) \in {1, 2}

\* C12: a DumpFile constructed without a schema over a file whose first
\* ITEM: ATOMS header names one or two components of a vector yields no
\* frame: the first next() raises IOError.
C12_PartialVectorRaises ==
    (ufile.exists /\ ~uobj.returned /\ HeadersOf(ufile.lines) # <<>>
        /\ PartialVector(HeadersOf(ufile.lines)[1])) =>
        /\ uout = <<>>
        /\ upc # "done"
        /\ upc = "raised" => uerr = "IOError"

\* the iteration over a file whose every header is "id type x y" has raised
C12_Witness ==
    /\ upc = "raised"
    /\ uerr = "IOError"
    /\ uobj.schema = NoSchema
    /\ Len(HeadersOf(ufile.lines)) = 2
    /\ \A k \in 1..2 : HeadersOf(ufile.lines)[k] = <<"id", "type", "x", "y">>

\* ------------------------------------------------------- claims on Box
\* the call Box.from_hoomd_convention(data, low=box.low) has returned
BackWithLow(pc) ==
    /\ bpc = pc
    /\ bargs = [low |-> bbox.low, force_triclinic |-> FALSE, dimensions |-> NoneInt]

BoxTol == BoxScale \div 100

BoxClose(a, b) ==
    /\ Len(a) = Len(b)
    /\ \A k \in 1..Len(a) : a[k] - b[k] <= BoxTol /\ b[k] - a[k] <= BoxTol

\* the 2-D half of C13: a third length of 0 comes back as Lz = 1 with
\* xz = yz = 0 (tilt None when xy is 0 as well)
TwoDimensional ==
    BackWithLow("back2d") =>
        /\ berr = "none"
        /\ bout.high[3] - bout.low[3] = BoxScale
        /\ bout.tilt # NoneTilt => bout.tilt[2] = 0 /\ bout.tilt[3] = 0

\* C13 as stated: the box that comes back has the same low, high and tilt,
\* tilt None exactly when it was None; and the 2-D case gives Lz = 1 and
\* xz = yz = 0.
C13_RoundTripSame ==
    /\ BackWithLow("back") => berr = "none" /\ bout = bbox
    /\ TwoDimensional

\* C13, amended: the box that comes back has the low and high of the
\* original; its tilt is None when the original tilt was None or all zero, and
\* is within tolerance of the original tilt otherwise; and the 2-D case gives
\* Lz = 1 and xz = yz = 0.
C13_RoundTripClose ==
    /\ BackWithLow("back") =>
          /\ berr = "none"
          /\ bout.low = bbox.low
          /\ BoxClose(bout.high, bbox.high)
          /\ IF bbox.tilt \in {NoneTilt, <<0, 0, 0>>} THEN bout.tilt = NoneTilt
             ELSE BoxClose(bout.tilt, bbox.tilt)
    /\ TwoDimensional

\* a triclinic box came back with a tilt that rounding moved
C13_Witness ==
    /\ BackWithLow("back")
    /\ bbox.tilt # NoneTilt
    /\ bout.tilt # NoneTilt
    /\ bout.tilt # bbox.tilt

\* ---------------------------------------------- claims on DataFile.read
\* the type ids the n rows of a section list, in file order
ListedTypes(lines, section, n) ==
    LET p == CHOOSE p \in 1..Len(lines) : lines[p].kw = section
    IN  [i \in 1..n |-> lines[p + 1 + i].toks[2].v]

\* the count a header line declares
Declared(lines, kw) ==
    LET p == CHOOSE p \in 1..Len(lines) : lines[p].kw = kw
    IN  lines[p].toks[1].v

OutOfRange(types, num_types) ==
    \E i \in 1..Len(types) : types[i] < 1 \/ types[i] > num_types

\* C14: read fails whenever a row of Atoms or of a topology section carries a
\* type id outside 1..num_types of its kind, above it or below 1.
C14_TypeidRangeChecked ==
    dpc = "read" =>
        LET lines == dfile.lines
        IN  /\ OutOfRange(ListedTypes(lines, "Atoms", Declared(lines, "atoms")),
                          Declared(lines, "atom types")) => drerr # "none"
            /\ \A kind \in TopologyKinds :
                  LET f == FieldOfSection(kind)
                  IN  HasSection(lines, kind) =>
                         (OutOfRange(ListedTypes(lines, kind, Declared(lines, f)),
                                     Declared(lines, TypesKw(f))) => drerr # "none")

\* ------------------------------------------- claims on DataFile.create
\* the style named on the Atoms line of a file
WrittenStyle(lines) ==
    LET p == CHOOSE p \in 1..Len(lines) : lines[p].kw = "Atoms"
    IN  lines[p].style

\* C15: with no atom_style given, the style create writes is full iff the
\* snapshot has charge and has molecule or some topology kind, molecular iff
\* it has molecule or some topology kind and no charge, charge iff it has
\* charge alone, atomic otherwise; the flags are those of the snapshot as it
\* was passed.
C15_StyleFromFlags ==
    (dpc = "created" /\ dstyle = NoStyle /\ dcerr = "none") =>
        LET has_charge == SnapshotHas(dorig, "charge")
            grouped == \/ SnapshotHas(dorig, "molecule")
                       \/ \E f \in Range(TopoFields) : SnapshotHasTopology(dorig, f)
            style == WrittenStyle(dfile.lines)
        IN  /\ style = "full" <=> (has_charge /\ grouped)
            /\ style = "molecular" <=> (~has_charge /\ grouped)
            /\ style = "charge" <=> (has_charge /\ ~grouped)
            /\ style = "atomic" <=> (~has_charge /\ ~grouped)

\* a snapshot whose only flag is has_impropers, next to an assigned but empty
\* bonds record, was written as molecular
C15_Witness ==
    /\ dpc = "created" /\ dstyle = NoStyle /\ dcerr = "none"
    /\ ~SnapshotHas(dorig, "molecule") /\ ~SnapshotHas(dorig, "charge")
    /\ SnapshotHasTopology(dorig, "impropers")
    /\ dorig.bonds # NoneTopo /\ ~SnapshotHasTopology(dorig, "bonds")
    /\ dorig.angles = NoneTopo /\ dorig.dihedrals = NoneTopo
    /\ WrittenStyle(dfile.lines) = "molecular"

\* ------------------------------------- claims on the topology of Snapshot
\* C16: has_<kind>() is true exactly when a record of that kind is assigned
\* and its N > 0: a new Snapshot has none, assigning a record of the kind
\* replaces the one assigned, assigning None clears it, and assigning a
\* record of another kind raises TypeError and leaves the assigned record and
\* has_<kind>() as they were; the other kinds are never touched.
C16_HasTopology ==
    [][lastOp'.op = "assign" =>
          LET field == lastOp'.attr
              value == lastOp'.value
          IN  /\ \A f \in {"bonds", "angles", "dihedrals", "impropers"} \ {field} :
                    snap'[f] = snap[f]
              /\ IF value = NoneInstance
                 THEN raised' = "none" /\ snap'[field] = NoneTopo
                      /\ ~SnapshotHasTopology(snap', field)
                 ELSE IF value.cls = KindOf(field)
                 THEN raised' = "none" /\ snap'[field] = value.obj
                      /\ (SnapshotHasTopology(snap', field) <=> value.obj.N > 0)
                 ELSE raised' = "TypeError" /\ snap'[field] = snap[field]
                      /\ (SnapshotHasTopology(snap', field) <=> SnapshotHasTopology(snap, field))]_vars

\* Impropers were assigned to dihedrals, which held Dihedrals with N = 1: the
\* TypeError left them in place
C16_Witness ==
    /\ lastOp.op = "assign"
    /\ lastOp.attr = "dihedrals"
    /\ lastOp.value = Instance("Impropers", 1)
    /\ raised = "TypeError"
    /\ SnapshotHasTopology(snap, "dihedrals")
    /\ snap.bonds # NoneTopo /\ ~SnapshotHasTopology(snap, "bonds")

\* ------------------------------------------------- claims on len(DumpFile)
\* len(f) once it has been called
LenOf(obj) == Len(obj.frames)

\* C17: len(f) is the number of timestep markers in the file, which for a
\* file create wrote is the number of snapshots written and the number of
\* frames an iteration that runs to its end yields; and a call of len()
\* before, during or after an iteration changes nothing the iteration reads:
\* the file, the position of the iteration, the frames yielded so far, and
\* the schema, sort_ids and copy_from of the object.
C17_Len ==
    /\ [](uobj.frames # NoFrames =>
             /\ LenOf(uobj) =
                   Cardinality({n \in 1..Len(ufile.lines) :
                                   ufile.lines[n].kw = "ITEM: TIMESTEP"})
             /\ LenOf(uobj) = Len(uorig)
             /\ upc = "done" => Len(uout) = LenOf(uobj))
    /\ [][(uobj.frames = NoFrames /\ uobj'.frames # NoFrames) =>
             /\ <<upc, ufile, uit, uout, uerr>>' = <<upc, ufile, uit, uout, uerr>>
             /\ uobj' = [uobj EXCEPT !.frames = uobj'.frames]]_vars

\* len() was called on a file of two frames and the iteration has yielded
\* both and ended
C17_Witness ==
    /\ uobj.frames # NoFrames
    /\ LenOf(uobj) = 2
    /\ upc = "done"
    /\ Len(uout) = 2

\* the first number after the id on the row of a section that lists id_
ListedFor(lines, section, n, id_, col) ==
    LET p == CHOOSE p \in 1..Len(lines) : lines[p].kw = section
        i == CHOOSE i \in 1..n : lines[p + 1 + i].toks[1].v = id_
    IN  lines[p + 1 + i].toks[col]

\* C18: after a read of a file in which Atoms and Velocities list the same
\* ids, in any row orders and in either order of the sections, the type id
\* and the position at every index are those the Atoms row of snapshot.id[i]
\* lists, and the velocity at that index is the one the Velocities row of the
\* same id lists.
C18_SameIndexPerId ==
    (dpc = "read" /\ dorig = NoSnapshot /\ drerr = "none"
        /\ HasSection(dfile.lines, "Velocities")) =>
        LET lines == dfile.lines
            ids == SnapshotGet(dout, "id").id.data
        IN  /\ Range(ids) = Range(ListedIds(lines, "Atoms", dout.N))
            /\ \A i \in 1..dout.N :
                  /\ dout.typeid.data[i] = ListedFor(lines, "Atoms", dout.N, ids[i], 2).v
                  /\ Row(dout.position, i - 1)[1] =
                        ParseFloat(ListedFor(lines, "Atoms", dout.N, ids[i], 3))
                  /\ Row(dout.velocity, i - 1)[1] =
                        ParseFloat(ListedFor(lines, "Velocities", dout.N, ids[i], 2))


\* the value in the column that the header fields names name_ (column j,
\* 1-based, of a row of ForeignFrame holds j)
ColumnOf(fields, name_) == CHOOSE j \in 1..Len(fields) : fields[j] = name_

\* C19: a DumpFile constructed without a schema parses every frame with the
\* columns of that frame's own ITEM: ATOMS header, and a frame whose header
\* names one or two components of a vector raises IOError whichever frame of
\* the file it is: no frame is yielded from it or after it.
C19_SchemaPerFrame ==
    (ufile.exists /\ ~uobj.returned) =>
        LET hs == HeadersOf(ufile.lines)
        IN  /\ \A k \in 1..Len(uout) :
                  /\ uout[k].typeid.data[1] = ColumnOf(hs[k], "type")
                  /\ SnapshotGet(uout[k], "id").id.data[1] = ColumnOf(hs[k], "id")
            /\ \A k \in 1..Len(hs) :
                  PartialVector(hs[k]) =>
                      /\ Len(uout) < k
                      /\ upc # "done"
                      /\ (upc = "raised" /\ Len(uout) = k - 1) => uerr = "IOError"


\* --------------------------------------------- claims on the scanner
\* the line in hand is a marker, and not the one the scanner awaits
OtherMarker ==
    /\ upc = "loop"
    /\ usc.c <= Len(ufile.lines)
    /\ ufile.lines[usc.c].kw # ""
    /\ ufile.lines[usc.c].kw # MarkerOrder[usc.state + 1]

ScanInOrder ==
    /\ upc = "loop" => (usc.state \in 0..3 /\ umarks = SubSeq(MarkerOrder, 1, usc.state))
    /\ upc = "yielded" => (usc.state = 4 /\ umarks = MarkerOrder)
    /\ Len(uout) <= Len(FindFrames(ufile.lines))

ScanAdvance ==
    /\ OtherMarker => (upc' = "loop" /\ usc'.state = usc.state /\ umarks' = umarks)
    /\ (upc = "yielded" /\ upc' # upc) => (upc' = "loop" /\ usc'.state = 0)
    /\ uout' # uout =>
          /\ upc = "loop" /\ upc' = "yielded"
          /\ usc.state = 3
          /\ ufile.lines[usc.c].kw = "ITEM: ATOMS"
          /\ Len(uout') = Len(uout) + 1

\* C20: a frame is yielded only when the timestep, atom-count, box-bounds
\* and atoms markers, in that order, are the markers that advanced the
\* scanner since the last frame; a pass over a marker other than the awaited
\* one leaves the state as it was; the pass after a yield starts in state 0;
\* and the frames yielded are never more than the timestep markers of the
\* file.
C20_MarkersInOrder == []ScanInOrder /\ [][ScanAdvance]_vars

\* the second frame of a file with three timestep markers has been yielded,
\* with the step of the first of the two markers that follow the first frame
C20_Witness ==
    /\ upc = "yielded"
    /\ Len(uout) = 2
    /\ Len(FindFrames(ufile.lines)) = 3
    /\ uout[2].step = 1


\* ------------------------------------------ claims on truncated files
\* the file ends inside its last frame: after the frame's timestep marker
\* and before the last of the lines the frame needs (the step, the marker
\* and value of the atom count, four lines of box, the atoms marker, N rows)
CutInFrame(lines) ==
    /\ \E p \in 1..Len(lines) : lines[p].kw = "ITEM: TIMESTEP"
    /\ LET p == MaxOf({q \in 1..Len(lines) : lines[q].kw = "ITEM: TIMESTEP"})
           have == Len(lines) - p
       IN  IF have < 3 THEN TRUE ELSE have < 8 + lines[p + 3].toks[1].v

\* C21: the iteration over a dump file that ends inside a frame does not end
\* normally: it never reaches the end of the generator, and it yields no
\* frame for the timestep marker of the frame that was cut.
C21_TruncatedRaises ==
    (ufile.exists /\ CutInFrame(ufile.lines)) =>
        /\ upc # "done"
        /\ Len(uout) < Len(FindFrames(ufile.lines))


\* ------------------------------------------- claims on the mass by type
\* every type that has particles carries one mass, and it is positive
OneMassPerType(s) ==
    LET typeid == SnapshotGet(s, "typeid").typeid.data
    IN  \A i \in 1..s.N : \A j \in 1..s.N :
           /\ s.mass.data[i] > 0
           /\ typeid[i] = typeid[j] => s.mass.data[i] = s.mass.data[j]

\* C22: create of a snapshot with masses fails in the mass derivation only
\* with one of its two ValueErrors, and when every type in use carries one
\* positive mass it succeeds and writes the Masses rows 1..num_types.
C22_MassPerType ==
    (dpc = "created" /\ SnapshotHas(dorig, "mass") /\ dorig.N >= 1 /\ dstyle # "bond") =>
        /\ dcerr \in {"none", "ValueError"}
        /\ OneMassPerType(dorig) =>
              /\ dcerr = "none"
              /\ HasSection(dfile.lines, "Masses")
              /\ ListedIds(dfile.lines, "Masses", NumTypes(dsnap).v)
                    = [i \in 1..NumTypes(dsnap).v |-> i]


\* ------------------------------------- claims on the order of sections
\* the lines of the section of a name: the blank line before its keyword,
\* the keyword and all lines up to the next section
BlockOf(lines, name) ==
    IF ~HasSection(lines, name) THEN <<>>
    ELSE LET p == CHOOSE p \in 1..Len(lines) : lines[p].kw = name
             later == {q \in (p + 1)..Len(lines) : lines[q].kw \in Sections}
         IN  SubSeq(lines, p - 1, IF later = {} THEN Len(lines) ELSE MinOf(later) - 2)

\* the same file with its sections in the order Atoms, Velocities, Masses,
\* Bonds, Angles, Dihedrals, Impropers
InFixedOrder(lines) ==
    LET first == MinOf({p \in 1..Len(lines) : lines[p].kw \in Sections})
    IN  SubSeq(lines, 1, first - 2)
        \o BlockOf(lines, "Atoms") \o BlockOf(lines, "Velocities")
        \o BlockOf(lines, "Masses") \o BlockOf(lines, "Bonds")
        \o BlockOf(lines, "Angles") \o BlockOf(lines, "Dihedrals")
        \o BlockOf(lines, "Impropers")

\* C23: read returns for a file what it returns for the same file with its
\* sections in one fixed order, whatever the order of the sections; the
\* masses it returns are the listed masses of the particles' type ids, and
\* has_mass() is true exactly when the file has a Masses section.
C23_SectionOrder ==
    (dpc = "read" /\ dorig = NoSnapshot) =>
        LET fixed == DataRead(File(InFixedOrder(dfile.lines)), dobj)
        IN  /\ drerr = fixed.err
            /\ dout = fixed.snap
            /\ drerr = "none" =>
                  /\ SnapshotHas(dout, "mass") <=> HasSection(dfile.lines, "Masses")
                  /\ SnapshotHas(dout, "mass") =>
                        \A i \in 1..dout.N :
                            dout.mass.data[i] =
                                (SnapshotGet(dout, "typeid").typeid.data[i] + 1) * (One \div 4)

\* a file with Masses and Velocities before Atoms, ids out of order, is read
C23_Witness ==
    /\ dpc = "read"
    /\ drerr = "none"
    /\ dout.N = 2
    /\ dout.id # NoneArr
    /\ SnapshotHas(dout, "mass")
    /\ dout.mass.data[1] # dout.mass.data[2]
    /\ LET at(name) == CHOOSE p \in 1..Len(dfile.lines) : dfile.lines[p].kw = name
       IN  /\ \A name \in {"Atoms", "Velocities", "Masses", "Bonds"} :
                 HasSection(dfile.lines, name)
           /\ at("Masses") < at("Velocities")
           /\ at("Velocities") < at("Bonds")
           /\ at("Bonds") < at("Atoms")


\* -------------------------------------------------- claims on ownership
\* no two Snapshots refer to one Box or one Bonds object, and no Snapshot
\* refers to a Box the caller holds
NothingShared ==
    /\ \A i \in 1..Len(hown) : hown[i].box \notin hcaller
    /\ \A i \in 1..Len(hown) : \A j \in 1..Len(hown) :
          i # j => /\ hown[i].box # hown[j].box
                   /\ hown[i].bonds # 0 => hown[i].bonds # hown[j].bonds

\* an assignment through one Snapshot changes what no other Snapshot shows,
\* and leaves the caller's Box as it was
OthersUntouched ==
    hlast'.op = "set" =>
        /\ \A j \in 1..Len(hown) : j # hlast'.who => HeapView(j)' = HeapView(j)
        /\ \A ref \in hcaller : hboxes'[ref] = hboxes[ref]

\* C24: every Snapshot has a Box and a Bonds object of its own: Snapshots
\* constructed from one Box object, and the frames of an iteration with
\* copy_from, share no Box and no Bonds object with one another, with the
\* reference or with the caller, and an assignment to the box or the bonds
\* of one Snapshot is seen through no other.
C24_ExclusiveOwnership == []NothingShared /\ [][OthersUntouched]_vars


\* ------------------------------------------- claims on side effects
\* C25: the conversions of Box change none of their inputs: the call of
\* to_hoomd_convention leaves the receiver as it was, and the call of
\* from_hoomd_convention (and of from_matrix inside it) leaves the array
\* box_data and the box whose low it was given as they were.
C25_BoxInputsUnchanged ==
    [][/\ (bpc = "new" /\ bpc' = "converted") => bbox' = bbox
       /\ (bpc \in {"converted", "flat"} /\ bpc' \in {"back", "back2d"}) =>
             (bdata' = bdata /\ bbox' = bbox)]_vars


\* ------------------------------------- claims on what a getter leaves
\* the record under test and its attributes
RecordOf(isnext) ==
    IF target = "Snapshot" THEN (IF isnext THEN snap' ELSE snap)
    ELSE (IF isnext THEN topo' ELSE topo)

AttrsOf == IF target = "Snapshot" THEN Range(SnapshotAttrs) ELSE Range(TopologyAttrs)

\* C26: after a read of the getter of an attribute of a Snapshot or of a
\* Topology record has_<attr>() is true; a read of a populated attribute
\* leaves its array as it is; a read changes nothing but that attribute; and
\* a populated attribute becomes unset only by the assignment of None to it.
C26_GetterMaterialises ==
    [][target # "none" =>
         /\ lastOp'.op = "get" =>
               /\ RecordOf(TRUE)[lastOp'.attr] # NoneArr
               /\ RecordOf(FALSE)[lastOp'.attr] # NoneArr =>
                     RecordOf(TRUE) = RecordOf(FALSE)
               /\ \A a \in AttrsOf \ {lastOp'.attr} : RecordOf(TRUE)[a] = RecordOf(FALSE)[a]
         /\ \A a \in AttrsOf :
               (RecordOf(FALSE)[a] # NoneArr /\ RecordOf(TRUE)[a] = NoneArr) =>
                   (lastOp'.op = "set" /\ lastOp'.attr = a /\ lastOp'.value = NoneArr)]_vars

\* the members of a Topology record with connections were read twice and
\* nothing else was populated
C26_Witness ==
    /\ target \in TopologyKinds /\ topo.N = MaxN /\ nops = 2
    /\ lastOp.op = "get" /\ lastOp.attr = "members"
    /\ TopologyHas(topo, "members")
    /\ ~TopologyHas(topo, "id") /\ ~TopologyHas(topo, "typeid")


\* ------------------------------------ claims on the DumpFile object
\* C27: a step of an iteration (a frame yielded, an error raised or the end
\* reached) leaves the DumpFile object as it was: its schema (None when it
\* was constructed without one), sort_ids, copy_from and frame index.
C27_IterationKeepsObject ==
    [][(upc = "iterating" /\ (uout' # uout \/ upc' # upc)) => uobj' = uobj]_vars


\* ------------------------------------------------ claims on generators
IsPrefix(a, b) == Len(a) <= Len(b) /\ SubSeq(b, 1, Len(a)) = a

\* generator k has run to the end of the file or to an error
Finished(k) == gens[k].pc \in {"done", "raised"}

\* C28: every iteration over one DumpFile object yields the same frames:
\* of any two generators, whether one ran before the other, was abandoned
\* part-way or is interleaved with it, the frames one has yielded so far
\* begin the frames of the other, and two that have finished ended the
\* same way after the same frames.
C28_Restartable ==
    \A k \in 1..Len(gens) : \A l \in 1..Len(gens) :
        /\ IsPrefix(gens[k].out, gens[l].out) \/ IsPrefix(gens[l].out, gens[k].out)
        /\ Finished(k) => IsPrefix(gens[l].out, gens[k].out)
        /\ (Finished(k) /\ Finished(l)) =>
              (gens[k].pc = gens[l].pc /\ gens[k].err = gens[l].err)

\* one iteration is complete with two frames, one was abandoned after its
\* first frame, and a third is suspended after its second frame
C28_Witness ==
    /\ Len(gens) = 3
    /\ gens[1].pc = "done" /\ Len(gens[1].out) = 2
    /\ gens[2].pc = "closed" /\ Len(gens[2].out) = 1
    /\ gens[3].pc = "suspended" /\ Len(gens[3].out) = 2


KeptOrDefault(before, after, a, default) ==
    IF before[a] # NoneArr THEN after[a] = before[a]
    ELSE after[a] \in {NoneArr, default}

\* C30: DataFile.create changes the snapshot it writes only by
\* materialising defaults: whatever the outcome, every populated value, N,
\* the box and the step are what they were, has_id, has_velocity,
\* has_image, has_molecule, has_charge and has_mass are what they were, and
\* an attribute that was unset is unset or holds its default; after a
\* create of N >= 1 particles that raised nothing, typeid and position are
\* populated and so are id, typeid and members of every topology record that
\* was written.
C30_CreateOnlyDefaults ==
    (dpc \in {"created", "read"} /\ dorig # NoSnapshot) =>
        /\ dsnap.N = dorig.N /\ dsnap.box = dorig.box /\ dsnap.step = dorig.step
        /\ dsnap.num_types = dorig.num_types
        /\ \A a \in {"id", "velocity", "image", "molecule", "charge", "mass"} :
               dsnap[a] = dorig[a]
        /\ \A a \in {"typeid", "position"} :
               KeptOrDefault(dorig, dsnap, a, SnapshotDefault(dorig.N, a))
        /\ \A f \in Range(TopoFields) :
               IF dorig[f] = NoneTopo THEN dsnap[f] = NoneTopo
               ELSE /\ dsnap[f] # NoneTopo
                    /\ dsnap[f].N = dorig[f].N
                    /\ dsnap[f].num_members = dorig[f].num_members
                    /\ dsnap[f].num_types = dorig[f].num_types
                    /\ \A a \in Range(TopologyAttrs) :
                           KeptOrDefault(dorig[f], dsnap[f], a, TopologyDefault(dorig[f], a))
        /\ (dcerr = "none" /\ dorig.N >= 1) =>
               /\ SnapshotHas(dsnap, "typeid") /\ SnapshotHas(dsnap, "position")
               /\ \A f \in Range(TopoFields) :
                      SnapshotHasTopology(dorig, f) =>
                          \A a \in Range(TopologyAttrs) : TopologyHas(dsnap[f], a)

\* a create that wrote a bonds section for a snapshot whose typeid and
\* position were unset and whose bonds had no ids: all three now hold
\* defaults, and the mass that was set is still there
C30_Witness ==
    /\ dpc = "created" /\ dcerr = "none" /\ dorig.N >= 1
    /\ ~SnapshotHas(dorig, "typeid") /\ ~SnapshotHas(dorig, "position")
    /\ dsnap.typeid = SnapshotDefault(dorig.N, "typeid")
    /\ \E f \in Range(TopoFields) :
           /\ SnapshotHasTopology(dorig, f)
           /\ \E a \in Range(TopologyAttrs) :
                  ~TopologyHas(dorig[f], a) /\ TopologyHas(dsnap[f], a)

====
